---- MODULE Spec2Model ----
(***************************************************************************)
(* A model of the Bamboo Lisp engine (src/src/bamboo.c): the tagged value  *)
(* model, the allocation list with its mark-sweep collector, the           *)
(* environment chain and the trampolined evaluator, driven by a REPL-like  *)
(* host that feeds top-level forms one at a time (src/repl/main.c).        *)
(*                                                                         *)
(* Memory is a sequence of allocation_t cells; an address is an index in   *)
(* that sequence and is never reused, so a reference to a freed cell stays *)
(* recognisable.  `allocs` is the linked list bamboo_allocations.          *)
(***************************************************************************)
EXTENDS Integers, Sequences, FiniteSets, TLC

\* ------------------------------------------------------------------------
\* Bounds of the model.
\* ------------------------------------------------------------------------
\* Number of iterations of the tail-recursive loop program.
MaxIter == 2
\* Number of calls the host makes in the host-level specifications.
MaxHostOps == 3
\* Number of environments the host holds at a time.
MaxEnvs == 3
\* Width in bits of the integers of the model, which stand for int64_t.
IntBits == 16

\* ------------------------------------------------------------------------
\* Program constants.
\* ------------------------------------------------------------------------
\* The sweep threshold of the evaluator loop; the header lets a build
\* override the default of 10000, the model uses a small one so that
\* collections happen inside every evaluation.
GC_ITER_COUNT_SWEEP == 3

BAMBOO_PAREN_QUOTE_END == -5
BAMBOO_PAREN_END == -4
BAMBOO_QUOTE_END == -3
BAMBOO_EMPTY_LINE == -1
BAMBOO_OK == 0
BAMBOO_ERROR_SYNTAX == 1
BAMBOO_ERROR_UNBOUND == 3
BAMBOO_ERROR_ARGUMENTS == 4
BAMBOO_ERROR_WRONG_TYPE == 5
BAMBOO_ERROR_NUM_OVERFLOW == 6
BAMBOO_ERROR_NUM_UNDERFLOW == 7
BAMBOO_ERROR_UNKNOWN == 9

\* errno: as the program starts, and as a conversion out of range sets it.
NoErrno == "0"
ERANGE == "ERANGE"

GC_TO_FREE == 0
GC_IN_USE == 1

STACK_PARENT_INDEX == 0
STACK_ENV_INDEX == 1
STACK_EVAL_OP_INDEX == 2
STACK_PENDING_ARGS_INDEX == 3
STACK_EVAL_ARGS_INDEX == 4
STACK_BODY_INDEX == 5

\* ------------------------------------------------------------------------
\* atom_t: a type tag and a value; references hold the address of the
\* allocation (pair_t* for PAIR/CLOSURE/MACRO, TCHAR** for SYMBOL/STRING).
\* ------------------------------------------------------------------------
nil == [type |-> "NIL", val |-> 0]
Atom(t, v) == [type |-> t, val |-> v]
nilp(a) == a.type = "NIL"

bamboo_int(n) == Atom("INTEGER", n)
bamboo_boolean(b) == Atom("BOOLEAN", IF b THEN 1 ELSE 0)
bamboo_builtin(f) == Atom("BUILTIN", f)

\* The primitives installed by populate_builtins that the model registers,
\* by position: a BUILTIN atom holds the position of its function.
BuiltinNames == <<"CAR", "CDR", "CONS", "+", "-", "=">>

\* allocation_t
PairCell(a, d) == [type |-> "PAIR", car |-> a, cdr |-> d, str |-> "", mark |-> GC_TO_FREE]
StringCell(s, junk) == [type |-> "STRING", car |-> junk, cdr |-> junk, str |-> s, mark |-> GC_TO_FREE]

\* The memory: M.heap the cells, M.allocs the allocation list (newest
\* first), M.symtab the symbol table, M.junk what a read of the bytes
\* behind a string slot yields when they are taken for an atom.
car(M, p) == M.heap[p.val].car
cdr(M, p) == M.heap[p.val].cdr
setcar(M, p, v) == [M EXCEPT !.heap[p.val].car = v]
setcdr(M, p, v) == [M EXCEPT !.heap[p.val].cdr = v]
Top(M) == Len(M.heap)

cons(M, a, d) ==
    [M EXCEPT !.heap = Append(@, PairCell(a, d)),
              !.allocs = <<Len(M.heap) + 1>> \o @]
LastPair(M) == Atom("PAIR", Top(M))

bamboo_string(M, s) ==
    [M EXCEPT !.heap = Append(@, StringCell(s, M.junk)),
              !.allocs = <<Len(M.heap) + 1>> \o @]

RECURSIVE SymtabFind(_, _, _)
SymtabFind(M, tmp, name) ==
    IF nilp(tmp) THEN nil
    ELSE IF M.heap[car(M, tmp).val].str = name THEN car(M, tmp)
    ELSE SymtabFind(M, cdr(M, tmp), name)

\* bamboo_symbol: the memory after the call and the atom returned.
bamboo_symbol(M, name) ==
    LET found == SymtabFind(M, M.symtab, name)
        M1 == bamboo_string(M, name)
        atom == Atom("SYMBOL", Top(M1))
        M2 == cons(M1, atom, M1.symtab)
    IN  IF ~nilp(found) THEN [m |-> M, v |-> found]
        ELSE [m |-> [M2 EXCEPT !.symtab = LastPair(M2)], v |-> atom]

\* ------------------------------------------------------------------------
\* List manipulation.
\* ------------------------------------------------------------------------
RECURSIVE listp(_, _)
listp(M, expr) ==
    IF nilp(expr) THEN TRUE
    ELSE IF expr.type # "PAIR" THEN FALSE
    ELSE listp(M, cdr(M, expr))

RECURSIVE ListCountFrom(_, _, _)
ListCountFrom(M, list, count) ==
    IF nilp(list) THEN count
    ELSE IF list.type # "PAIR" THEN 0
    ELSE ListCountFrom(M, cdr(M, list), count + 1)
list_count(M, list) == ListCountFrom(M, list, 0)

RECURSIVE list_ref(_, _, _)
list_ref(M, list, index) ==
    IF index = 0 THEN car(M, list) ELSE list_ref(M, cdr(M, list), index - 1)

RECURSIVE list_set(_, _, _, _)
list_set(M, list, index, value) ==
    IF index = 0 THEN setcar(M, list, value)
    ELSE list_set(M, cdr(M, list), index - 1, value)

\* list_reverse: the in-place reversal; the memory and the new head.
RECURSIVE ListReverseLoop(_, _, _)
ListReverseLoop(M, list, tail) ==
    IF nilp(list) THEN [m |-> M, v |-> tail]
    ELSE ListReverseLoop(setcdr(M, list, tail), cdr(M, list), list)
\* The list is handed back as it was built.
list_reverse_keep(M, list) == [m |-> M, v |-> list]

list_reverse(M, list) == ListReverseLoop(M, list, nil)

\* ------------------------------------------------------------------------
\* Environment.
\* ------------------------------------------------------------------------
bamboo_env_new(M, parent) == cons(M, parent, nil)

RECURSIVE EnvFind(_, _, _)
\* The (symbol . value) item of a binding list whose symbol is the given
\* one, compared by the address of the name; nil when there is none.
EnvFind(M, current, symbol) ==
    IF nilp(current) THEN nil
    ELSE IF car(M, car(M, current)).val = symbol.val THEN car(M, current)
    ELSE EnvFind(M, cdr(M, current), symbol)

RECURSIVE bamboo_env_get(_, _, _)
\* The parent is searched before the frame itself.
bamboo_env_get_outer(M, env, symbol) ==
    LET parent == car(M, env)
        item == EnvFind(M, cdr(M, env), symbol)
    IN  IF ~nilp(parent) /\ bamboo_env_get(M, parent, symbol).err = BAMBOO_OK
        THEN bamboo_env_get(M, parent, symbol)
        ELSE IF ~nilp(item) THEN [err |-> BAMBOO_OK, v |-> cdr(M, item)]
        ELSE [err |-> BAMBOO_ERROR_UNBOUND, v |-> nil]

bamboo_env_get(M, env, symbol) ==
    LET parent == car(M, env)
        item == EnvFind(M, cdr(M, env), symbol)
    IN  IF ~nilp(item) THEN [err |-> BAMBOO_OK, v |-> cdr(M, item)]
        ELSE IF nilp(parent) THEN [err |-> BAMBOO_ERROR_UNBOUND, v |-> nil]
        ELSE bamboo_env_get(M, parent, symbol)

\* A binding the parent frame holds is updated there.
bamboo_env_set_walk(M, env, symbol, value) ==
    LET item == EnvFind(M, cdr(M, env), symbol)
        outer == IF nilp(car(M, env)) THEN nil
                 ELSE EnvFind(M, cdr(M, car(M, env)), symbol)
        M1 == cons(M, symbol, value)
        M2 == cons(M1, LastPair(M1), cdr(M1, env))
    IN  IF ~nilp(item) THEN setcdr(M, item, value)
        ELSE IF ~nilp(outer) THEN setcdr(M, outer, value)
        ELSE setcdr(M2, env, LastPair(M2))

bamboo_env_set(M, env, symbol, value) ==
    LET item == EnvFind(M, cdr(M, env), symbol)
        M1 == cons(M, symbol, value)
        M2 == cons(M1, LastPair(M1), cdr(M1, env))
    IN  IF ~nilp(item) THEN setcdr(M, item, value)
        ELSE setcdr(M2, env, LastPair(M2))

bamboo_env_set_builtin(M, env, name, func) ==
    LET s == bamboo_symbol(M, name)
    IN  bamboo_env_set(s.m, env, s.v, bamboo_builtin(func))

\* ------------------------------------------------------------------------
\* Garbage collection.
\* ------------------------------------------------------------------------
Live(M) == {M.allocs[i] : i \in DOMAIN M.allocs}
Collectable == {"PAIR", "CLOSURE", "MACRO", "SYMBOL", "STRING"}

\* gc_mark reads the mark of the allocation behind the reference, sets it
\* and then takes atom[0] and atom[1] at the referenced address for every
\* collectable type.  For a SYMBOL or STRING that address is the string
\* slot, not a pair: what is read there is M.junk (kept in the car/cdr of
\* the string cell).  A reference to no live allocation is a wild read,
\* recorded in M.fault.
RECURSIVE gc_mark(_, _)
gc_mark(M, root) ==
    IF root.type \notin Collectable \/ M.fault THEN M
    ELSE IF root.val \notin Live(M) THEN [M EXCEPT !.fault = TRUE]
    ELSE IF M.heap[root.val].mark = GC_IN_USE THEN M
    ELSE LET M1 == [M EXCEPT !.heap[root.val].mark = GC_IN_USE]
             M2 == gc_mark(M1, car(M1, root))
         IN  gc_mark(M2, cdr(M2, root))

\* A sweep that unlinks nothing.
SweepKeepAll(M, respect_marks) == M

\* The sweep of gc: unlink every allocation that is not marked (or every
\* allocation when the marks are not respected).
Sweep(M, respect_marks) ==
    [M EXCEPT !.allocs = SelectSeq(@, LAMBDA a :
                            respect_marks /\ M.heap[a].mark = GC_IN_USE)]

\* The last loop of gc: clear the marks of what is left on the list.
ClearMarks(M) ==
    [M EXCEPT !.heap = [a \in DOMAIN M.heap |->
                          IF a \in Live(M) THEN [M.heap[a] EXCEPT !.mark = GC_TO_FREE]
                          ELSE M.heap[a]]]

\* The symbol table is not marked.
GcMarkedNoSymtab(M, respect_marks) == M

\* The first step of gc: mark the symbol table.
GcMarked(M, respect_marks) ==
    IF respect_marks THEN gc_mark(M, M.symtab) ELSE M

gc(M, respect_marks) ==
    LET M1 == GcMarked(M, respect_marks)
    IN  IF M1.fault THEN M1 ELSE ClearMarks(Sweep(M1, respect_marks))

\* ------------------------------------------------------------------------
\* Closures and the built-in functions.
\* ------------------------------------------------------------------------
RECURSIVE ClosureArgsOk(_, _)
ClosureArgsOk(M, tmp) ==
    IF nilp(tmp) THEN TRUE
    ELSE IF tmp.type = "SYMBOL" THEN TRUE
    ELSE IF tmp.type # "PAIR" THEN FALSE
    ELSE IF car(M, tmp).type # "SYMBOL" THEN FALSE
    ELSE ClosureArgsOk(M, cdr(M, tmp))

\* bamboo_closure: the memory, the error code and, on success, the atom.
bamboo_closure(M, env, args, body) ==
    LET M1 == cons(M, args, body)
        M2 == cons(M1, env, LastPair(M1))
    IN  IF ~listp(M, body) \/ ~ClosureArgsOk(M, args)
        THEN [m |-> M, err |-> BAMBOO_ERROR_SYNTAX, v |-> nil]
        ELSE [m |-> M2, err |-> BAMBOO_OK, v |-> Atom("CLOSURE", Top(M2))]

\* A built-in returns the memory, the error code and the result; `set`
\* tells whether *result was written.
BOk(M, v) == [m |-> M, err |-> BAMBOO_OK, v |-> v, set |-> TRUE]
BErr(M, e) == [m |-> M, err |-> e, v |-> nil, set |-> FALSE]

builtin_car(M, args) ==
    IF list_count(M, args) # 1 THEN BErr(M, BAMBOO_ERROR_ARGUMENTS)
    ELSE IF nilp(car(M, args)) THEN BOk(M, nil)
    ELSE IF car(M, args).type # "PAIR" THEN BErr(M, BAMBOO_ERROR_WRONG_TYPE)
    ELSE BOk(M, car(M, car(M, args)))

builtin_cdr(M, args) ==
    IF list_count(M, args) # 1 THEN BErr(M, BAMBOO_ERROR_ARGUMENTS)
    ELSE IF nilp(car(M, args)) THEN BOk(M, nil)
    ELSE IF car(M, args).type # "PAIR" THEN BErr(M, BAMBOO_ERROR_WRONG_TYPE)
    ELSE BOk(M, cdr(M, car(M, args)))

builtin_cons(M, args) ==
    LET M1 == cons(M, car(M, args), car(M, cdr(M, args)))
    IN  IF list_count(M, args) # 2 THEN BErr(M, BAMBOO_ERROR_ARGUMENTS)
        ELSE BOk(M1, LastPair(M1))

\* Floats are held in thousandths.
FloatScale == 1000

\* The local num of the arithmetic primitives: its type tag, and its value
\* union with the member that was written last.  Reading the integer
\* member after dfloat was written yields the low bytes of the long
\* double, bits, which depend on the representation.
NumInteger(t, n) == [type |-> t, val |-> n, member |-> "integer"]
NumFloat(t, f) == [type |-> t, val |-> f, member |-> "dfloat"]
IntegerMember(num, bits) == IF num.member = "integer" THEN num.val ELSE bits
\* num.type = ATOM_TYPE_FLOAT; num.value.dfloat = (double)num.value.integer
Promoted(num, bits) ==
    IF num.type = "INTEGER"
    THEN NumFloat("FLOAT", IntegerMember(num, bits) * FloatScale)
    ELSE num
\* *result = num
NumAtom(num, bits) ==
    IF num.type = "INTEGER" THEN Atom("INTEGER", IntegerMember(num, bits))
    ELSE Atom(num.type, num.val)

RECURSIVE SumLoop(_, _, _)
SumLoop(M, args, num) ==
    IF nilp(args) THEN BOk(M, NumAtom(num, 0))
    ELSE IF car(M, args).type = "INTEGER"
         THEN IF num.type = "INTEGER"
              THEN SumLoop(M, cdr(M, args), NumInteger("INTEGER", num.val + car(M, args).val))
              ELSE SumLoop(M, cdr(M, args),
                           NumFloat("FLOAT", num.val + car(M, args).val * FloatScale))
    ELSE IF car(M, args).type = "FLOAT"
         THEN SumLoop(M, cdr(M, args),
                      NumFloat("FLOAT", Promoted(num, 0).val + car(M, args).val))
    ELSE BErr(M, BAMBOO_ERROR_WRONG_TYPE)
builtin_sum(M, args) ==
    IF list_count(M, args) < 2 THEN BErr(M, BAMBOO_ERROR_ARGUMENTS)
    ELSE SumLoop(M, args, NumInteger("INTEGER", 0))

RECURSIVE SubtractLoop(_, _, _, _, _)
SubtractLoop(M, args, num, first, bits) ==
    IF nilp(args) THEN BOk(M, NumAtom(num, bits))
    ELSE IF car(M, args).type = "INTEGER"
         THEN IF first
              THEN SubtractLoop(M, cdr(M, args), NumInteger(num.type, car(M, args).val),
                                FALSE, bits)
              ELSE IF num.type = "INTEGER"
              THEN SubtractLoop(M, cdr(M, args),
                                NumInteger("INTEGER",
                                           IntegerMember(num, bits) - car(M, args).val),
                                FALSE, bits)
              ELSE SubtractLoop(M, cdr(M, args),
                                NumFloat("FLOAT", num.val - car(M, args).val * FloatScale),
                                FALSE, bits)
    ELSE IF car(M, args).type = "FLOAT"
         THEN IF first
              THEN SubtractLoop(M, cdr(M, args), NumFloat(num.type, car(M, args).val),
                                FALSE, bits)
              ELSE SubtractLoop(M, cdr(M, args),
                                NumFloat("FLOAT", Promoted(num, bits).val - car(M, args).val),
                                FALSE, bits)
    ELSE BErr(M, BAMBOO_ERROR_WRONG_TYPE)
builtin_subtract(M, args, bits) ==
    IF list_count(M, args) < 2 THEN BErr(M, BAMBOO_ERROR_ARGUMENTS)
    ELSE SubtractLoop(M, args, NumInteger("INTEGER", 0), TRUE, bits)

\* A product of two floats is cut to thousandths.
RECURSIVE MultiplyLoop(_, _, _, _, _)
MultiplyLoop(M, args, num, first, bits) ==
    IF nilp(args) THEN BOk(M, NumAtom(num, bits))
    ELSE IF car(M, args).type = "INTEGER"
         THEN IF first
              THEN MultiplyLoop(M, cdr(M, args), NumInteger(num.type, car(M, args).val),
                                FALSE, bits)
              ELSE IF num.type = "INTEGER"
              THEN MultiplyLoop(M, cdr(M, args),
                                NumInteger("INTEGER",
                                           IntegerMember(num, bits) * car(M, args).val),
                                FALSE, bits)
              ELSE MultiplyLoop(M, cdr(M, args),
                                NumFloat("FLOAT", num.val * car(M, args).val),
                                FALSE, bits)
    ELSE IF car(M, args).type = "FLOAT"
         THEN IF first
              THEN MultiplyLoop(M, cdr(M, args), NumFloat(num.type, car(M, args).val),
                                FALSE, bits)
              ELSE MultiplyLoop(M, cdr(M, args),
                                NumFloat("FLOAT",
                                         (Promoted(num, bits).val * car(M, args).val)
                                             \div FloatScale),
                                FALSE, bits)
    ELSE BErr(M, BAMBOO_ERROR_WRONG_TYPE)
builtin_multiply(M, args, bits) ==
    IF list_count(M, args) < 2 THEN BErr(M, BAMBOO_ERROR_ARGUMENTS)
    ELSE MultiplyLoop(M, args, NumInteger("INTEGER", 0), TRUE, bits)

\* atom_boolean_val: every atom that is no Boolean counts as true.
atom_boolean_val(atom) == IF atom.type # "BOOLEAN" THEN TRUE ELSE atom.val # 0

RECURSIVE AndLoop(_, _, _)
AndLoop(M, args, prev_atom) ==
    IF nilp(args) THEN BOk(M, bamboo_boolean(TRUE))
    ELSE IF atom_boolean_val(prev_atom) # atom_boolean_val(car(M, args))
         THEN BOk(M, bamboo_boolean(FALSE))
    ELSE AndLoop(M, cdr(M, args), car(M, args))
builtin_and(M, args) ==
    IF list_count(M, args) < 2 THEN BErr(M, BAMBOO_ERROR_ARGUMENTS)
    ELSE AndLoop(M, cdr(M, args), car(M, args))

RECURSIVE OrLoop(_, _, _)
OrLoop(M, args, prev_atom) ==
    IF nilp(args) THEN BOk(M, bamboo_boolean(FALSE))
    ELSE IF atom_boolean_val(prev_atom) \/ atom_boolean_val(car(M, args))
         THEN BOk(M, bamboo_boolean(TRUE))
    ELSE OrLoop(M, cdr(M, args), car(M, args))
builtin_or(M, args) ==
    IF list_count(M, args) < 2 THEN BErr(M, BAMBOO_ERROR_ARGUMENTS)
    ELSE OrLoop(M, cdr(M, args), car(M, args))

RECURSIVE NumeqLoop(_, _, _)
NumeqLoop(M, args, prev_num) ==
    IF nilp(args) THEN BOk(M, bamboo_boolean(TRUE))
    ELSE IF car(M, args).type = "INTEGER"
         THEN IF prev_num.val = car(M, args).val
              THEN NumeqLoop(M, cdr(M, args), car(M, args))
              ELSE BOk(M, bamboo_boolean(FALSE))
    ELSE BErr(M, BAMBOO_ERROR_WRONG_TYPE)
builtin_numeq(M, args) ==
    IF list_count(M, args) < 2 THEN BErr(M, BAMBOO_ERROR_ARGUMENTS)
    ELSE NumeqLoop(M, cdr(M, args), car(M, args))

\* (*op.value.builtin)(args, result): the call through the function pointer.
CallBuiltin(M, f, args) ==
    CASE BuiltinNames[f] = "CAR" -> builtin_car(M, args)
      [] BuiltinNames[f] = "CDR" -> builtin_cdr(M, args)
      [] BuiltinNames[f] = "CONS" -> builtin_cons(M, args)
      [] BuiltinNames[f] = "+" -> builtin_sum(M, args)
      [] BuiltinNames[f] = "-" -> builtin_subtract(M, args, M.junk.val)
      [] BuiltinNames[f] = "=" -> builtin_numeq(M, args)

\* ------------------------------------------------------------------------
\* Evaluation.  An evaluator state S holds the memory S.m, the locals of
\* bamboo_eval_expr (expr, env, stack, err), the caller's *result, and
\* observation fields that no code reads: S.trace, the steps taken for the
\* current top-level form, and S.sweep, the last collection.
\* ------------------------------------------------------------------------
Ev(k, f, a, l) == [k |-> k, f |-> f, a |-> a, l |-> l]
Note(S, k, f, a, l) == [S EXCEPT !.trace = Append(@, Ev(k, f, a, l))]

RECURSIVE ListToSeq(_, _)
ListToSeq(M, list) ==
    IF list.type # "PAIR" THEN <<>>
    ELSE <<car(M, list)>> \o ListToSeq(M, cdr(M, list))

SymName(M, a) == M.heap[a.val].str

\* bamboo_error: the code becomes the value of err.
bamboo_error(S, code) == Note([S EXCEPT !.err = code], "raise", code, nil, <<>>)

\* bamboo_env_set as the evaluator calls it.
EnvSet(S, e, symbol, value) ==
    [S EXCEPT !.m = bamboo_env_set(S.m, e, symbol, value)]

\* cons onto the pair allocated last.
ConsOnLast(M, a) == cons(M, a, LastPair(M))

new_stack_frame(M, parent, e, tail) ==
    ConsOnLast(ConsOnLast(ConsOnLast(ConsOnLast(ConsOnLast(
        cons(M, nil, nil), nil), tail), nil), e), parent)

\* The state once a frame has just been allocated: it is the stack.
WithFrame(S, M) == [S EXCEPT !.m = M, !.stack = LastPair(M)]

\* The pair allocated last becomes the current expression.
WithExpr(S) == [S EXCEPT !.expr = LastPair(S.m)]

\* The frame is kept while its last body expression is evaluated.
eval_expr_exec_keep(S) ==
    LET e == list_ref(S.m, S.stack, STACK_ENV_INDEX)
        body == list_ref(S.m, S.stack, STACK_BODY_INDEX)
        rest == cdr(S.m, body)
        T == Note(S, "exec", S.stack.val, car(S.m, body), <<rest>>)
    IN  [T EXCEPT !.env = e, !.expr = car(S.m, body),
                  !.m = list_set(S.m, S.stack, STACK_BODY_INDEX, rest),
                  !.err = BAMBOO_OK]

eval_expr_exec(S) ==
    LET e == list_ref(S.m, S.stack, STACK_ENV_INDEX)
        body == list_ref(S.m, S.stack, STACK_BODY_INDEX)
        rest == cdr(S.m, body)
        T == Note(S, "exec", S.stack.val, car(S.m, body), <<rest>>)
    IN  IF nilp(rest)
        THEN [T EXCEPT !.env = e, !.expr = car(S.m, body),
                       !.stack = car(S.m, S.stack), !.err = BAMBOO_OK]
        ELSE [T EXCEPT !.env = e, !.expr = car(S.m, body),
                       !.m = list_set(S.m, S.stack, STACK_BODY_INDEX, rest),
                       !.err = BAMBOO_OK]

\* The binding loop of eval_expr_bind: the state, the argument values left
\* over and whether the values ended before the names did.
RECURSIVE BindLoop(_, _, _, _)
BindLoop(S, e, arg_names, args) ==
    IF nilp(arg_names) THEN [s |-> S, args |-> args, short |-> FALSE]
    ELSE IF arg_names.type = "SYMBOL"
         THEN [s |-> EnvSet(S, e, arg_names, args), args |-> nil, short |-> FALSE]
    ELSE IF nilp(args) THEN [s |-> S, args |-> args, short |-> TRUE]
    ELSE BindLoop(EnvSet(S, e, car(S.m, arg_names), car(S.m, args)), e,
                  cdr(S.m, arg_names), cdr(S.m, args))

\* The end of eval_expr_bind: the argument count check, then the body.
BindFinish(S, b, args) ==
    IF b.short \/ ~nilp(b.args) THEN bamboo_error(b.s, BAMBOO_ERROR_ARGUMENTS)
    ELSE eval_expr_exec(
             [Note(b.s, "bind", S.stack.val, b.s.env, ListToSeq(S.m, args))
                 EXCEPT !.m = list_set(@, S.stack, STACK_EVAL_ARGS_INDEX, nil)])

\* The parameters are bound in the closure's own environment.
BindEnterShared(S, M1, op, args) ==
    BindFinish(S,
               BindLoop([S EXCEPT !.m = list_set(list_set(M1, S.stack, STACK_ENV_INDEX,
                                                          car(M1, op)),
                                                 S.stack, STACK_BODY_INDEX,
                                                 cdr(M1, cdr(M1, op))),
                                  !.env = car(M1, op)],
                        car(M1, op), car(M1, cdr(M1, op)), args),
               args)

\* eval_expr_bind once the new environment has been allocated in M1.
BindEnter(S, M1, op, args) ==
    BindFinish(S,
               BindLoop([S EXCEPT !.m = list_set(list_set(M1, S.stack, STACK_ENV_INDEX,
                                                          LastPair(M1)),
                                                 S.stack, STACK_BODY_INDEX,
                                                 cdr(M1, cdr(M1, op))),
                                  !.env = LastPair(M1)],
                        LastPair(M1), car(M1, cdr(M1, op)), args),
               args)

eval_expr_bind(S) ==
    IF ~nilp(list_ref(S.m, S.stack, STACK_BODY_INDEX)) THEN eval_expr_exec(S)
    ELSE BindEnter(S,
                   bamboo_env_new(S.m, car(S.m, list_ref(S.m, S.stack, STACK_EVAL_OP_INDEX))),
                   list_ref(S.m, S.stack, STACK_EVAL_OP_INDEX),
                   list_ref(S.m, S.stack, STACK_EVAL_ARGS_INDEX))

\* The second half of eval_expr_apply, once op and args are settled.
ApplyOp(S, op, args) ==
    LET M1 == cons(S.m, op, args)
    IN  IF op.type = "BUILTIN"
        THEN Note([S EXCEPT !.m = M1, !.stack = car(S.m, S.stack),
                            !.expr = LastPair(M1), !.err = BAMBOO_OK],
                  "apply", S.stack.val, op, ListToSeq(S.m, args))
        ELSE IF op.type # "CLOSURE" THEN bamboo_error(S, BAMBOO_ERROR_WRONG_TYPE)
        ELSE eval_expr_bind(S)

\* The APPLY special form: the frame has been replaced by a fresh one; the
\* operator and the argument list are taken from the evaluated arguments.
ApplySpecial(S, args) ==
    LET op2 == car(S.m, args)
        args2 == car(S.m, cdr(S.m, args))
    IN  IF ~listp(S.m, args2) THEN bamboo_error(S, BAMBOO_ERROR_SYNTAX)
        ELSE ApplyOp([S EXCEPT !.m = list_set(list_set(@, S.stack, STACK_EVAL_OP_INDEX, op2),
                                              S.stack, STACK_EVAL_ARGS_INDEX, args2)],
                     op2, args2)

\* The fresh frame pushed on the frame of APPLY.
ApplyFormNested(S, op, args) ==
    IF op.type = "SYMBOL" /\ SymName(S.m, op) = "APPLY"
    THEN ApplySpecial(WithFrame(S, new_stack_frame(S.m, S.stack, S.env, nil)), args)
    ELSE ApplyOp(S, op, args)

\* eval_expr_apply once the evaluated arguments are back in source order.
ApplyForm(S, op, args) ==
    IF op.type = "SYMBOL" /\ SymName(S.m, op) = "APPLY"
    THEN ApplySpecial(WithFrame(S, new_stack_frame(S.m, car(S.m, S.stack), S.env, nil)),
                      args)
    ELSE ApplyOp(S, op, args)

\* eval_expr_apply once the list of evaluated arguments has been reversed.
ApplyReversed(S, op, r) ==
    ApplyForm([S EXCEPT !.m = IF nilp(r.v) THEN r.m
                              ELSE list_set(r.m, S.stack, STACK_EVAL_ARGS_INDEX, r.v)],
              op, r.v)

eval_expr_apply(S) ==
    ApplyReversed(S, list_ref(S.m, S.stack, STACK_EVAL_OP_INDEX),
                  IF nilp(list_ref(S.m, S.stack, STACK_EVAL_ARGS_INDEX))
                  THEN [m |-> S.m, v |-> nil]
                  ELSE list_reverse(S.m, list_ref(S.m, S.stack, STACK_EVAL_ARGS_INDEX)))

\* The tail of eval_expr_return: take the next pending argument or apply.
NextArgument(S) ==
    LET args == list_ref(S.m, S.stack, STACK_PENDING_ARGS_INDEX)
    IN  IF nilp(args) THEN eval_expr_apply(S)
        ELSE Note([S EXCEPT !.expr = car(S.m, args),
                            !.m = list_set(S.m, S.stack, STACK_PENDING_ARGS_INDEX,
                                           cdr(S.m, args)),
                            !.err = BAMBOO_OK],
                  "next", S.stack.val, car(S.m, args), <<>>)

\* The store_argument label of eval_expr_return.
StoreArgument(S) ==
    LET args == list_ref(S.m, S.stack, STACK_EVAL_ARGS_INDEX)
        M1 == cons(S.m, S.result, args)
        M2 == list_set(M1, S.stack, STACK_EVAL_ARGS_INDEX, LastPair(M1))
    IN  NextArgument(Note([S EXCEPT !.m = M2], "arg", S.stack.val, S.result, <<>>))

\* A macro operator: a fresh frame holding the macro as a closure and the
\* pending argument expressions as its arguments, then the binding.
MacroFrame(S2, S1) ==
    [S2 EXCEPT !.m = list_set(list_set(@, S2.stack, STACK_EVAL_OP_INDEX,
                                       Atom("CLOSURE", S1.result.val)),
                              S2.stack, STACK_EVAL_ARGS_INDEX,
                              list_ref(S1.m, S1.stack, STACK_PENDING_ARGS_INDEX))]

\* The operator of the frame has just been evaluated and stored.
ReturnOp(S1) ==
    IF S1.result.type = "MACRO"
    THEN eval_expr_bind(MacroFrame(WithFrame(S1, new_stack_frame(S1.m, S1.stack, S1.env, nil)),
                                   S1))
    ELSE NextArgument(S1)

\* The value of a DEFINE has been bound: the result is (QUOTE symbol).
ReturnQuoted(D1, q, symbol) ==
    WithExpr([D1 EXCEPT !.m = ConsOnLast(cons(q.m, symbol, nil), q.v),
                        !.stack = car(D1.m, D1.stack), !.err = BAMBOO_OK])

ReturnDefine(D1, symbol) == ReturnQuoted(D1, bamboo_symbol(D1.m, "QUOTE"), symbol)

\* Nil counts as false as well.
IfBranchNilFalse(S, args) ==
    IF (S.result.type = "BOOLEAN" /\ S.result.val = 0) \/ nilp(S.result)
    THEN car(S.m, cdr(S.m, args))
    ELSE car(S.m, args)

\* The path an IF takes once its condition has been evaluated.
IfBranch(S, args) ==
    IF S.result.type = "BOOLEAN" /\ S.result.val = 0
    THEN car(S.m, cdr(S.m, args))
    ELSE car(S.m, args)

\* The environment eval_expr_return restores: the one kept in the frame.
ReturnEnvStale(S0) == S0.env

ReturnEnv(S0) == list_ref(S0.m, S0.stack, STACK_ENV_INDEX)

\* eval_expr_return after the environment of the frame has been restored.
ReturnIn(S) ==
    LET op == list_ref(S.m, S.stack, STACK_EVAL_OP_INDEX)
        body == list_ref(S.m, S.stack, STACK_BODY_INDEX)
        symbol == list_ref(S.m, S.stack, STACK_EVAL_ARGS_INDEX)
        iargs == list_ref(S.m, S.stack, STACK_PENDING_ARGS_INDEX)
    IN  IF ~nilp(body) THEN eval_expr_apply(S)
        ELSE IF nilp(op)
             THEN ReturnOp(Note([S EXCEPT !.m = list_set(@, S.stack, STACK_EVAL_OP_INDEX,
                                                         S.result)],
                                "op", S.stack.val, S.result, <<>>))
        ELSE IF op.type = "SYMBOL" /\ SymName(S.m, op) = "DEFINE"
             THEN ReturnDefine(EnvSet(S, S.env, symbol, S.result), symbol)
        ELSE IF op.type = "SYMBOL" /\ SymName(S.m, op) = "IF"
             THEN Note([S EXCEPT !.expr = IfBranch(S, iargs),
                                 !.stack = car(S.m, S.stack), !.err = BAMBOO_OK],
                       "if", S.stack.val, S.result, <<>>)
        ELSE IF op.type = "MACRO"
             THEN Note([S EXCEPT !.expr = S.result, !.stack = car(S.m, S.stack),
                                 !.err = BAMBOO_OK],
                       "expand", S.stack.val, S.result, <<S.env>>)
        ELSE StoreArgument(S)

eval_expr_return(S0) == ReturnIn([S0 EXCEPT !.env = ReturnEnv(S0)])

\* What the collector is to keep, stated apart from gc_mark.
PairShaped == {"PAIR", "CLOSURE", "MACRO"}

\* The addresses reachable from a set of atoms through pair heads and
\* tails (a symbol or string is reached, never followed).
RECURSIVE ReachFrom(_, _, _)
ReachFrom(M, todo, seen) ==
    IF todo = {} THEN seen
    ELSE LET a == CHOOSE x \in todo : TRUE
             new == IF a.type \in Collectable /\ a.val \notin seen /\ a.val \in DOMAIN M.heap
                    THEN {a.val} ELSE {}
             kids == IF new # {} /\ a.type \in PairShaped
                     THEN {car(M, a), cdr(M, a)} ELSE {}
         IN  ReachFrom(M, (todo \ {a}) \cup kids, seen \cup new)
ReachSet(M, roots) == ReachFrom(M, roots, {})

\* The collection at the top of the evaluator loop.  S.sweep keeps, for
\* the last collection, the allocation list and the marked allocations at
\* the moment the sweep began and the roots the loop marked.
Marked(M) == {a \in Live(M) : M.heap[a].mark = GC_IN_USE}

\* The loop forgets to mark the stack.
MarkRootsNoStack(S) == gc_mark(gc_mark(S.m, S.expr), S.env)

\* The three gc_mark calls of the loop before it calls gc.
MarkRoots(S) == gc_mark(gc_mark(gc_mark(S.m, S.expr), S.env), S.stack)

\* The collection without the reset of the counter.
GcSweepNoReset(S, M3) ==
    [S EXCEPT !.m = gc(M3, TRUE), !.gc = @ + 1,
              !.sweep = [n |-> @.n + 1,
                         before |-> GcMarked(M3, TRUE).allocs,
                         marked |-> Marked(GcMarked(M3, TRUE)),
                         after |-> gc(M3, TRUE).allocs,
                         left |-> Marked(gc(M3, TRUE)),
                         reach |-> ReachSet(S.m, {S.expr, S.env, S.stack, S.m.symtab}),
                         roots |-> <<S.expr, S.env, S.stack, S.m.symtab>>]]

\* The collection proper, M3 being the memory with the roots marked.
GcSweep(S, M3) ==
    [S EXCEPT !.m = gc(M3, TRUE), !.gc = 0,
              !.sweep = [n |-> @.n + 1,
                         before |-> GcMarked(M3, TRUE).allocs,
                         marked |-> Marked(GcMarked(M3, TRUE)),
                         after |-> gc(M3, TRUE).allocs,
                         left |-> Marked(gc(M3, TRUE)),
                         reach |-> ReachSet(S.m, {S.expr, S.env, S.stack, S.m.symtab}),
                         roots |-> <<S.expr, S.env, S.stack, S.m.symtab>>]]

GcTrigger(S) ==
    IF S.gc + 1 = GC_ITER_COUNT_SWEEP THEN GcSweep(S, MarkRoots(S))
    ELSE [S EXCEPT !.gc = @ + 1]

Flow(S, f) == [S EXCEPT !.flow = f]
Return(S, code) == Flow(bamboo_error(S, code), "return")

\* The push label: a new frame to evaluate the operator of a call.
PushIn(S2, op, call, e) ==
    Flow(Note([S2 EXCEPT !.expr = op], "push", S2.stack.val, call, <<e>>), "continue")

Push(S, op, args) ==
    PushIn(WithFrame(S, new_stack_frame(S.m, S.stack, S.env, args)), op, S.expr, S.env)

\* A special form that parks a frame tagged with its symbol (IF, DEFINE of
\* a symbol, APPLY) and goes on with a sub-expression.
ParkIn(S, op, slot, next) ==
    Flow([Note(S, "park", S.stack.val, S.expr, <<S.env, car(S.m, S.stack)>>)
             EXCEPT !.m = IF nilp(slot)
                          THEN list_set(@, S.stack, STACK_EVAL_OP_INDEX, op)
                          ELSE list_set(list_set(@, S.stack, STACK_EVAL_OP_INDEX, op),
                                        S.stack, STACK_EVAL_ARGS_INDEX, slot),
                    !.expr = next], "continue")

Park(S, op, tail, slot, next) ==
    ParkIn(WithFrame(S, new_stack_frame(S.m, S.stack, S.env, tail)), op, slot, next)

\* DEFINE with the lambda shorthand.
DefineBind(S1, e, name) ==
    IF name.type # "SYMBOL" THEN Return(S1, BAMBOO_ERROR_WRONG_TYPE)
    ELSE Flow([EnvSet(S1, e, name, S1.result) EXCEPT !.result = name], "fall")

DefineMade(S, c, name) ==
    DefineBind(IF c.err = BAMBOO_OK
               THEN [S EXCEPT !.m = c.m, !.result = c.v, !.err = BAMBOO_OK]
               ELSE bamboo_error(S, c.err),
               S.env, name)

DefineClosure(S, symbol, args) ==
    DefineMade(S, bamboo_closure(S.m, S.env, cdr(S.m, symbol), cdr(S.m, args)),
               car(S.m, symbol))

Lambda(S, args) ==
    LET c == bamboo_closure(S.m, S.env, car(S.m, args), cdr(S.m, args))
    IN  IF c.err = BAMBOO_OK
        THEN Flow([S EXCEPT !.m = c.m, !.result = c.v, !.err = BAMBOO_OK], "fall")
        ELSE Flow(bamboo_error(S, c.err), "fall")

Defmacro(S, args) ==
    LET name == car(S.m, car(S.m, args))
        c == bamboo_closure(S.m, S.env, cdr(S.m, car(S.m, args)), cdr(S.m, args))
        S1 == [S EXCEPT !.m = c.m, !.result = name, !.err = BAMBOO_OK]
    IN  IF car(S.m, args).type # "PAIR" THEN Return(S, BAMBOO_ERROR_WRONG_TYPE)
        ELSE IF name.type # "SYMBOL" THEN Return(S, BAMBOO_ERROR_WRONG_TYPE)
        ELSE IF c.err = BAMBOO_OK
             THEN Flow(EnvSet(S1, S.env, name, Atom("MACRO", c.v.val)), "fall")
             ELSE Flow(bamboo_error(S, c.err), "fall")

\* The LOAD primitive of the REPL, which re-enters the evaluator: it is
\* registered by repl_populate_builtins after the primitives of
\* populate_builtins.
RECURSIVE builtin_load(_, _)
LoadBuiltin == Len(BuiltinNames) + 1

\* The reduction of expr in one turn of the loop; S.flow tells how the
\* turn goes on: "continue" (back to the top), "return" (out of the
\* function) or "fall" (on to the end-of-stack test).
Reduce(S) ==
    LET g == bamboo_env_get(S.m, S.env, S.expr)
        op == car(S.m, S.expr)
        args == cdr(S.m, S.expr)
        name == SymName(S.m, op)
        b == CallBuiltin(S.m, op.val, args)
    IN  IF S.expr.type = "SYMBOL"
        THEN IF g.err = BAMBOO_OK
             THEN Flow([S EXCEPT !.result = g.v, !.err = BAMBOO_OK], "fall")
             ELSE Flow(bamboo_error([S EXCEPT !.result = g.v], g.err), "fall")
        ELSE IF S.expr.type # "PAIR" THEN Flow([S EXCEPT !.result = S.expr], "fall")
        ELSE IF op.type = "SYMBOL" /\ name = "QUOTE"
             THEN IF list_count(S.m, args) # 1 THEN Return(S, BAMBOO_ERROR_ARGUMENTS)
                  ELSE Flow([S EXCEPT !.result = car(S.m, args)], "fall")
        ELSE IF op.type = "SYMBOL" /\ name = "IF"
             THEN IF list_count(S.m, args) # 3 THEN Return(S, BAMBOO_ERROR_ARGUMENTS)
                  ELSE Park(S, op, cdr(S.m, args), nil, car(S.m, args))
        ELSE IF op.type = "SYMBOL" /\ name = "DEFINE"
             THEN IF list_count(S.m, args) < 2 THEN Return(S, BAMBOO_ERROR_ARGUMENTS)
                  ELSE IF car(S.m, args).type = "SYMBOL"
                       THEN Park(S, op, nil, car(S.m, args), car(S.m, cdr(S.m, args)))
                  ELSE IF car(S.m, args).type = "PAIR"
                       THEN DefineClosure(S, car(S.m, args), args)
                  ELSE Return(S, BAMBOO_ERROR_WRONG_TYPE)
        ELSE IF op.type = "SYMBOL" /\ name = "LAMBDA"
             THEN IF list_count(S.m, args) < 2 THEN Return(S, BAMBOO_ERROR_ARGUMENTS)
                  ELSE Lambda(S, args)
        ELSE IF op.type = "SYMBOL" /\ name = "DEFMACRO"
             THEN IF list_count(S.m, args) < 2 THEN Return(S, BAMBOO_ERROR_ARGUMENTS)
                  ELSE Defmacro(S, args)
        ELSE IF op.type = "SYMBOL" /\ name = "APPLY"
             THEN IF list_count(S.m, args) < 2 THEN Return(S, BAMBOO_ERROR_ARGUMENTS)
                  ELSE Park(S, op, cdr(S.m, args), nil, car(S.m, args))
        ELSE IF op.type = "SYMBOL" THEN Push(S, op, args)
        ELSE IF op.type = "BUILTIN" /\ op.val = LoadBuiltin
             THEN Flow(builtin_load(S, args), "fall")
        ELSE IF op.type = "BUILTIN"
             THEN IF b.err = BAMBOO_OK
                  THEN Flow([S EXCEPT !.m = b.m, !.result = b.v, !.err = BAMBOO_OK], "fall")
                  ELSE Flow(bamboo_error(S, b.err), "fall")
        ELSE Push(S, op, args)

\* One turn of the do-while loop of bamboo_eval_expr.
TurnReturned(S3) ==
    IF S3.err <= BAMBOO_OK THEN Flow(S3, "continue") ELSE Flow(S3, "return")

TurnReduced(S2) ==
    IF S2.flow # "fall" THEN S2
    ELSE IF nilp(S2.stack) THEN Flow(S2, "return")
    ELSE IF S2.err > BAMBOO_OK THEN Flow(S2, "return")
    ELSE TurnReturned(eval_expr_return(S2))

TurnCollected(S1) ==
    IF S1.m.fault THEN Flow(S1, "crash") ELSE TurnReduced(Reduce(Flow(S1, "fall")))

EvalTurn(S0) == TurnCollected(GcTrigger(S0))

\* bamboo_eval_expr from its first turn to its return (or to a crash).
RECURSIVE RunEval(_)
RunNext(T) == IF T.flow \in {"return", "crash"} THEN T ELSE RunEval(T)
RunEval(S) == RunNext(EvalTurn(S))

\* The state in which bamboo_eval_expr starts: a clean slate.
EvalEntry(S, x, e) ==
    [S EXCEPT !.expr = x, !.env = e, !.stack = nil, !.result = nil,
              !.err = BAMBOO_OK, !.flow = "fall"]

\* The binding loop of apply: the state, the argument values left over
\* and whether the values ended before the names did.
RECURSIVE ApplyBindLoop(_, _, _, _)
ApplyBindLoop(S, e, arg_names, args) ==
    IF nilp(arg_names) THEN [s |-> S, args |-> args, short |-> FALSE]
    ELSE IF arg_names.type = "SYMBOL"
         THEN [s |-> EnvSet(S, e, arg_names, args), args |-> nil, short |-> FALSE]
    ELSE IF nilp(args) THEN [s |-> S, args |-> args, short |-> TRUE]
    ELSE ApplyBindLoop(EnvSet(S, e, car(S.m, arg_names), car(S.m, args)), e,
                       cdr(S.m, arg_names), cdr(S.m, args))

\* The body loop of apply: each expression through bamboo_eval_expr.
RECURSIVE ApplyBody(_, _, _)
ApplyBodyNext(T, e, body) ==
    IF T.flow = "crash" \/ T.err > BAMBOO_OK THEN T
    ELSE ApplyBody(T, e, cdr(T.m, body))
ApplyBody(S, e, body) ==
    IF nilp(body) THEN [S EXCEPT !.err = BAMBOO_OK, !.flow = "return"]
    ELSE ApplyBodyNext(RunEval(EvalEntry(S, car(S.m, body), e)), e, body)

\* apply once the arguments have been bound in the local environment e.
ApplyBound(b, e, body) ==
    IF b.short THEN Return(b.s, BAMBOO_ERROR_WRONG_TYPE)
    ELSE IF ~nilp(b.args) THEN Return(b.s, BAMBOO_ERROR_ARGUMENTS)
    ELSE ApplyBody(b.s, e, body)

\* apply of a closure, the local environment being the pair allocated last.
ApplyClosure(S, func, args) ==
    ApplyBound(ApplyBindLoop(S, LastPair(S.m), car(S.m, cdr(S.m, func)), args),
               LastPair(S.m), cdr(S.m, cdr(S.m, func)))

\* What the call of a built-in leaves in the state.
ApplyBuiltin(S, b) ==
    IF b.err = BAMBOO_OK
    THEN Flow([S EXCEPT !.m = b.m, !.result = b.v, !.err = BAMBOO_OK], "return")
    ELSE Return(S, b.err)

\* The public apply(func, args, &result).
apply(S, func, args) ==
    IF func.type = "BUILTIN" THEN ApplyBuiltin(S, CallBuiltin(S.m, func.val, args))
    ELSE IF func.type # "CLOSURE" THEN Return(S, BAMBOO_ERROR_WRONG_TYPE)
    ELSE ApplyClosure([S EXCEPT !.m = bamboo_env_new(S.m, car(S.m, func))], func, args)

\* ------------------------------------------------------------------------
\* The reader, as far as the evaluator's input needs it: a form is given
\* as a syntax tree and built the way parse_list builds a list, element
\* by element from the left, each symbol through bamboo_symbol.
\* ------------------------------------------------------------------------
I(n) == [k |-> "int", n |-> n, s |-> "", l |-> <<>>]
Y(s) == [k |-> "sym", n |-> 0, s |-> s, l |-> <<>>]
L(l) == [k |-> "list", n |-> 0, s |-> "", l |-> l]
T(s) == [k |-> "str", n |-> 0, s |-> s, l |-> <<>>]

RECURSIVE Build(_, _)
RECURSIVE BuildList(_, _, _, _, _)
Build(M, sx) ==
    IF sx.k = "int" THEN [m |-> M, v |-> bamboo_int(sx.n)]
    ELSE IF sx.k = "sym" THEN bamboo_symbol(M, sx.s)
    ELSE IF sx.k = "str"
         THEN [m |-> bamboo_string(M, sx.s), v |-> Atom("STRING", Top(M) + 1)]
    ELSE BuildList(M, sx.l, 1, nil, nil)
BuildList(M, l, i, head, last) ==
    IF i > Len(l) THEN [m |-> M, v |-> head]
    ELSE LET e == Build(M, l[i])
             M1 == cons(e.m, e.v, nil)
         IN  IF nilp(head) THEN BuildList(M1, l, i + 1, LastPair(M1), LastPair(M1))
             ELSE BuildList(setcdr(M1, last, LastPair(M1)), l, i + 1, head, LastPair(M1))

\* ------------------------------------------------------------------------
\* Lexing and parsing.  A text is a string; a position is an index into
\* it, Len + 1 being the terminating NUL, which CharAt reads as "".
\* ------------------------------------------------------------------------
CharAt(str, i) == IF i >= 1 /\ i <= Len(str) THEN SubSeq(str, i, i) ELSE ""

wspace == {" ", "\t", "\r", "\n"}
delim == {"(", ")", "\"", " ", "\t", "\r", "\n"}
prefix == {"(", ")", "'", "\""}

\* _tcsspn(tmp, wspace) and _tcscspn(tmp, delim), as positions.
RECURSIVE SkipSpan(_, _)
SkipSpan(str, i) == IF CharAt(str, i) \in wspace THEN SkipSpan(str, i + 1) ELSE i
RECURSIVE SkipCspan(_, _)
SkipCspan(str, i) ==
    IF CharAt(str, i) = "" \/ CharAt(str, i) \in delim THEN i ELSE SkipCspan(str, i + 1)

\* lex once the leading whitespace has been skipped.
LexAt(str, tmp) ==
    IF CharAt(str, tmp) = "" THEN [err |-> BAMBOO_EMPTY_LINE, start |-> tmp, end |-> tmp]
    ELSE IF CharAt(str, tmp) \in prefix
         THEN [err |-> BAMBOO_OK, start |-> tmp, end |-> tmp + 1]
    ELSE [err |-> BAMBOO_OK, start |-> tmp, end |-> SkipCspan(str, tmp)]

lex(str, i) == LexAt(str, SkipSpan(str, i))

\* The text of a token.
TokenText(str, token) == SubSeq(str, token.start, token.end - 1)

\* _totupper on the letters, and the value of a digit in strtoll.
LowerCase == "abcdefghijklmnopqrstuvwxyz"
UpperCase == "ABCDEFGHIJKLMNOPQRSTUVWXYZ"
DigitChars == "0123456789ABCDEF"
IndexIn(str, c) ==
    IF \E i \in 1..Len(str) : SubSeq(str, i, i) = c
    THEN CHOOSE i \in 1..Len(str) : SubSeq(str, i, i) = c
    ELSE 0
totupper(c) ==
    IF IndexIn(LowerCase, c) = 0 THEN c
    ELSE SubSeq(UpperCase, IndexIn(LowerCase, c), IndexIn(LowerCase, c))
RECURSIVE UpperText(_)
UpperText(str) ==
    IF str = "" THEN "" ELSE totupper(SubSeq(str, 1, 1)) \o UpperText(Tail(str))

\* What a parse function hands back: the memory, the code, the caller's
\* *end and the caller's *atom (each as left when not written).
Parsed(M, e, end, v) == [m |-> M, err |-> e, end |-> end, v |-> v]

\* strtoll(str, &buf, 0): the digits from position i in the given base;
\* n counts the digits taken.
RECURSIVE DigitRun(_, _, _, _, _)
DigitRun(str, i, base, acc, n) ==
    IF IndexIn(DigitChars, totupper(CharAt(str, i))) \in 1..base
    THEN DigitRun(str, i + 1, base,
                  acc * base + IndexIn(DigitChars, totupper(CharAt(str, i))) - 1, n + 1)
    ELSE [v |-> acc, buf |-> i, n |-> n]

\* The number after the optional sign: the base is told by the prefix.
StrtollHex(str, i, h) ==
    IF h.n > 0 THEN h ELSE [v |-> 0, buf |-> i + 1, n |-> 1]
StrtollDigits(str, i) ==
    IF CharAt(str, i) = "0" /\ totupper(CharAt(str, i + 1)) = "X"
    THEN StrtollHex(str, i, DigitRun(str, i + 2, 16, 0, 0))
    ELSE IF CharAt(str, i) = "0" THEN DigitRun(str, i, 8, 0, 0)
    ELSE DigitRun(str, i, 10, 0, 0)

Signed(r, neg, start) ==
    IF r.n = 0 THEN [v |-> 0, buf |-> start]
    ELSE [v |-> IF neg THEN 0 - r.v ELSE r.v, buf |-> r.buf]

\* The integers of the model are IntBits wide.
LLONG_MAX == 2 ^ (IntBits - 1) - 1
LLONG_MIN == 0 - LLONG_MAX - 1

\* A value out of range is returned as the nearest limit, and range tells
\* that strtoll stores ERANGE in errno; otherwise errno is left alone.
Ranged(r) ==
    [v |-> IF r.v > LLONG_MAX THEN LLONG_MAX
           ELSE IF r.v < LLONG_MIN THEN LLONG_MIN ELSE r.v,
     buf |-> r.buf,
     range |-> r.v > LLONG_MAX \/ r.v < LLONG_MIN]

strtoll(str, start) ==
    IF CharAt(str, start) \in {"+", "-"}
    THEN Ranged(Signed(StrtollDigits(str, start + 1), CharAt(str, start) = "-", start))
    ELSE Ranged(Signed(StrtollDigits(str, start), FALSE, start))

\* strtold on a decimal number without exponent (the texts of the model
\* hold no E, X, P, I or N after a digit or sign): the value is kept in
\* thousandths, the digits after the third decimal being dropped.
RECURSIVE FracRun(_, _, _, _, _)
FracRun(str, i, acc, scale, n) ==
    IF IndexIn(DigitChars, CharAt(str, i)) \in 1..10
    THEN FracRun(str, i + 1,
                 acc + (IndexIn(DigitChars, CharAt(str, i)) - 1) * (scale \div 10),
                 scale \div 10, n + 1)
    ELSE [v |-> acc, buf |-> i, n |-> n]

StrtoldFrac(ip, fp) ==
    [v |-> ip.v * FloatScale + fp.v, buf |-> fp.buf, n |-> ip.n + fp.n]
StrtoldPoint(str, ip) ==
    IF CharAt(str, ip.buf) = "."
    THEN StrtoldFrac(ip, FracRun(str, ip.buf + 1, 0, FloatScale, 0))
    ELSE [v |-> ip.v * FloatScale, buf |-> ip.buf, n |-> ip.n]
StrtoldDigits(str, i) == StrtoldPoint(str, DigitRun(str, i, 10, 0, 0))

strtold(str, start) ==
    IF CharAt(str, start) \in {"+", "-"}
    THEN Signed(StrtoldDigits(str, start + 1), CharAt(str, start) = "-", start)
    ELSE Signed(StrtoldDigits(str, start), FALSE, start)

bamboo_float(n) == Atom("FLOAT", n)

parse_hash_expr(M, str, token, end, atom) ==
    IF token.start + 1 = token.end THEN Parsed(M, BAMBOO_ERROR_SYNTAX, end, atom)
    ELSE IF CharAt(str, token.start + 1) \in {"F", "f"}
         THEN Parsed(M, BAMBOO_OK, token.end, bamboo_boolean(FALSE))
    ELSE IF CharAt(str, token.start + 1) \in {"T", "t"}
         THEN Parsed(M, BAMBOO_OK, token.end, bamboo_boolean(TRUE))
    ELSE Parsed(M, BAMBOO_ERROR_SYNTAX, end, atom)

\* The symbol branch of parse_primitive, buf being the upper-cased token.
ParseSymbol(M, buf, token) ==
    IF buf = "NIL" THEN Parsed(M, BAMBOO_OK, token.end, nil)
    ELSE Parsed(bamboo_symbol(M, buf).m, BAMBOO_OK, token.end, bamboo_symbol(M, buf).v)

\* The token is an integer: the range check reads errno, which nothing
\* in the library sets back to 0.
ParseInteger(M1, integer, token, end) ==
    IF M1.errno = ERANGE /\ integer = LLONG_MAX
    THEN Parsed(M1, BAMBOO_ERROR_NUM_OVERFLOW, end, nil)
    ELSE IF M1.errno = ERANGE /\ integer = LLONG_MIN
    THEN Parsed(M1, BAMBOO_ERROR_NUM_UNDERFLOW, end, nil)
    ELSE Parsed(M1, BAMBOO_OK, token.end, bamboo_int(integer))

\* The numeric branch once strtoll has run, M1 holding the errno it left;
\* the floats of the model are neither HUGE_VALL nor LDBL_MIN.
ParseNumber(M1, str, token, end, r) ==
    IF r.buf = token.end THEN ParseInteger(M1, r.v, token, end)
    ELSE IF strtold(str, token.start).buf = token.end
         THEN Parsed(M1, BAMBOO_OK, token.end, bamboo_float(strtold(str, token.start).v))
    ELSE ParseSymbol(M1, UpperText(TokenText(str, token)), token)

parse_primitive(M, str, token, end, atom) ==
    IF CharAt(str, token.start) = "#" THEN parse_hash_expr(M, str, token, end, atom)
    ELSE IF IndexIn(DigitChars, CharAt(str, token.start)) \in 1..10
            \/ CharAt(str, token.start) \in {"+", "-"}
         THEN ParseNumber(IF strtoll(str, token.start).range
                          THEN [M EXCEPT !.errno = ERANGE] ELSE M,
                          str, token, end, strtoll(str, token.start))
    ELSE ParseSymbol(M, UpperText(TokenText(str, token)), token)

\* The position of the next double quote at or after tmp, or of the NUL.
RECURSIVE StringEnd(_, _)
StringEnd(str, tmp) ==
    IF CharAt(str, tmp) \in {"\"", ""} THEN tmp ELSE StringEnd(str, tmp + 1)

ParseStringAt(M, str, token, q, atom) ==
    IF CharAt(str, q) = "" THEN Parsed(M, BAMBOO_ERROR_SYNTAX, q, atom)
    ELSE Parsed(bamboo_string(M, SubSeq(str, token.end, q - 1)), BAMBOO_OK, q + 1,
                Atom("STRING", Top(M) + 1))

parse_string(M, str, token, end, atom) ==
    ParseStringAt(M, str, token, StringEnd(str, token.end), atom)

RECURSIVE bamboo_parse_expr(_, _, _, _, _)
RECURSIVE ListLoop(_, _)

\* The first item of a list: the list is the pair allocated last.
ListFirst(ls) == [ls EXCEPT !.atom = LastPair(ls.m), !.last = LastPair(ls.m)]

\* A further item: the pair allocated last is hung on the last one.
ListNext(ls) ==
    [ls EXCEPT !.m = setcdr(@, ls.last, LastPair(@)), !.last = LastPair(ls.m)]

\* "Concatenate the atom to the list": ls.last is the pair whose tail
\* last_atom points to (last_atom points to *atom while that is Nil).
ListAppend(ls, str) ==
    IF nilp(ls.atom) THEN ListLoop(ListFirst([ls EXCEPT !.m = cons(@, ls.tmp, nil)]), str)
    ELSE IF ~nilp(cdr(ls.m, ls.last))
         THEN Parsed(ls.m, BAMBOO_ERROR_SYNTAX, ls.end, ls.atom)
    ELSE IF ls.is_pair
         THEN ListLoop([ls EXCEPT !.m = setcdr(@, ls.last, ls.tmp), !.is_pair = FALSE], str)
    ELSE ListLoop(ListNext([ls EXCEPT !.m = cons(@, ls.tmp, nil)]), str)

\* parse_list after bamboo_parse_expr has returned r for the token.
ListParsed(ls, str, r) ==
    IF r.err = BAMBOO_PAREN_END THEN Parsed(r.m, BAMBOO_OK, r.end, ls.atom)
    ELSE IF r.err = BAMBOO_QUOTE_END
         THEN ListAppend([ls EXCEPT !.m = r.m, !.tmp = r.v,
                                   !.tokend = lex(str, r.end).end,
                                   !.end = lex(str, r.end).end], str)
    ELSE IF r.err = BAMBOO_PAREN_QUOTE_END
         THEN ListAppend([ls EXCEPT !.m = r.m, !.tmp = r.v, !.tokend = r.end,
                                   !.end = r.end], str)
    ELSE IF r.err # BAMBOO_OK THEN Parsed(r.m, r.err, ls.end, ls.atom)
    ELSE ListAppend([ls EXCEPT !.m = r.m, !.tmp = r.v, !.tokend = r.end], str)

\* parse_list at a `.` token, test being the token after it.
ListDot(ls, str, token, test) ==
    IF nilp(ls.atom) THEN Parsed(ls.m, BAMBOO_ERROR_SYNTAX, ls.end, ls.atom)
    ELSE IF test.err # BAMBOO_OK \/ CharAt(str, test.start) = ")"
         THEN Parsed(ls.m, BAMBOO_ERROR_SYNTAX, ls.end, ls.atom)
    ELSE ListLoop([ls EXCEPT !.tokend = token.end, !.is_pair = TRUE], str)

\* The body of the while loop of parse_list for one token.
ListToken(ls, str, token) ==
    IF token.err # BAMBOO_OK THEN Parsed(ls.m, BAMBOO_OK, ls.end, ls.atom)
    ELSE IF CharAt(str, token.start) = "." THEN ListDot(ls, str, token, lex(str, token.end))
    ELSE ListParsed(ls, str, bamboo_parse_expr(ls.m, str, token.start, token.end, ls.tmp))

\* The while loop of parse_list; ls holds its locals: ls.tokend is
\* token.end, ls.tmp is tmp_atom, ls.end the caller's *end, ls.atom the
\* caller's *atom.
ListLoop(ls, str) == ListToken(ls, str, lex(str, ls.tokend))

parse_list(M, str, input, end) ==
    ListLoop([m |-> M, end |-> end, atom |-> nil, last |-> nil, tokend |-> input,
              tmp |-> nil, is_pair |-> FALSE], str)

\* cons(bamboo_symbol("QUOTE"), cons(nil, nil))
QuoteCell(M) ==
    ConsOnLast(cons(bamboo_symbol(M, "QUOTE").m, nil, nil), bamboo_symbol(M, "QUOTE").v)

\* The quote shorthand after its body has been parsed into the second
\* element of q, the parse having returned r.
QuoteDone(q, r) ==
    IF r.err > BAMBOO_OK THEN Parsed(setcar(r.m, cdr(r.m, q), r.v), r.err, r.end, q)
    ELSE IF r.err = BAMBOO_PAREN_END
         THEN Parsed(setcar(r.m, cdr(r.m, q), r.v), BAMBOO_PAREN_QUOTE_END, r.end, q)
    ELSE Parsed(setcar(r.m, cdr(r.m, q), r.v), BAMBOO_QUOTE_END, r.end, q)

ParseQuote(M, str, token, end) ==
    QuoteDone(LastPair(M), bamboo_parse_expr(M, str, token.end, end, nil))

\* bamboo_parse_expr once lex has found the token.
ParseToken(M, str, token, end, atom) ==
    IF token.err = BAMBOO_EMPTY_LINE THEN Parsed(M, BAMBOO_EMPTY_LINE, end, nil)
    ELSE IF CharAt(str, token.start) = "\"" THEN parse_string(M, str, token, end, atom)
    ELSE IF CharAt(str, token.start) = "(" THEN parse_list(M, str, token.end, end)
    ELSE IF CharAt(str, token.start) = ")" THEN Parsed(M, BAMBOO_PAREN_END, end, atom)
    ELSE IF CharAt(str, token.start) = "'"
         THEN IF CharAt(str, token.end) = "("
              THEN Parsed(M, BAMBOO_ERROR_SYNTAX, end, atom)
              ELSE ParseQuote(QuoteCell(M), str, token, end)
    ELSE parse_primitive(M, str, token, end, atom)

\* bamboo_parse_expr(input, &end, &atom): end and atom are what the
\* caller's variables hold before the call.
bamboo_parse_expr(M, str, input, end, atom) == ParseToken(M, str, lex(str, input), end, atom)

\* ------------------------------------------------------------------------
\* The printer.
\* ------------------------------------------------------------------------
\* "%lld"
RECURSIVE DecimalText(_)
DecimalText(n) ==
    IF n < 10 THEN SubSeq(DigitChars, n + 1, n + 1)
    ELSE DecimalText(n \div 10) \o SubSeq(DigitChars, (n % 10) + 1, (n % 10) + 1)
IntegerText(n) == IF n < 0 THEN "-" \o DecimalText(0 - n) ELSE DecimalText(n)

\* "%Lg" of a value held in thousandths and below a million: the decimals
\* without their trailing zeros.
RECURSIVE FractionText(_, _)
FractionText(f, scale) ==
    IF f = 0 THEN ""
    ELSE DecimalText(f \div (scale \div 10)) \o FractionText(f % (scale \div 10), scale \div 10)
FloatMagnitude(n) ==
    IF n % FloatScale = 0 THEN DecimalText(n \div FloatScale)
    ELSE DecimalText(n \div FloatScale) \o "." \o FractionText(n % FloatScale, FloatScale)
FloatText(n) == IF n < 0 THEN "-" \o FloatMagnitude(0 - n) ELSE FloatMagnitude(n)

RECURSIVE bamboo_expr_str(_, _)
RECURSIVE PairRest(_, _)

\* The loop with the tail of a pair written as one more item.
PairRestNoDot(M, atom) ==
    IF nilp(atom) THEN ")"
    ELSE IF atom.type = "PAIR"
         THEN " " \o bamboo_expr_str(M, car(M, atom)) \o PairRest(M, cdr(M, atom))
    ELSE " " \o bamboo_expr_str(M, atom) \o ")"

\* The loop over the right-hand side of a pair, up to the closing paren.
PairRest(M, atom) ==
    IF nilp(atom) THEN ")"
    ELSE IF atom.type = "PAIR"
         THEN " " \o bamboo_expr_str(M, car(M, atom)) \o PairRest(M, cdr(M, atom))
    ELSE " . " \o bamboo_expr_str(M, atom) \o ")"

\* The parameters and the body of a closure or macro.
FunctionText(M, atom) ==
    (IF nilp(car(M, cdr(M, atom))) THEN "" ELSE bamboo_expr_str(M, car(M, cdr(M, atom))))
        \o " " \o bamboo_expr_str(M, cdr(M, cdr(M, atom))) \o ">"

bamboo_expr_str(M, atom) ==
    CASE atom.type = "NIL" -> "nil"
      [] atom.type = "SYMBOL" -> M.heap[atom.val].str
      [] atom.type = "INTEGER" -> IntegerText(atom.val)
      [] atom.type = "FLOAT" -> FloatText(atom.val)
      [] atom.type = "BOOLEAN" -> IF atom.val # 0 THEN "#t" ELSE "#f"
      [] atom.type = "STRING" -> "\"" \o M.heap[atom.val].str \o "\""
      [] atom.type = "PAIR" ->
             "(" \o bamboo_expr_str(M, car(M, atom)) \o PairRest(M, cdr(M, atom))
      [] atom.type = "BUILTIN" -> "#<BUILTIN:" \o IntegerText(atom.val) \o ">"
      [] atom.type = "CLOSURE" -> "#<FUNCTION:" \o FunctionText(M, atom)
      [] atom.type = "MACRO" -> "#<MACRO:" \o FunctionText(M, atom)
      [] OTHER -> "Unknown type. Don't know how to display this"

\* ------------------------------------------------------------------------
\* The LOAD primitive (repl/functions.c).
\* ------------------------------------------------------------------------
\* bamboo_get_root_env(): the environment bamboo_init has made, its first
\* allocation.
bamboo_get_root_env == Atom("PAIR", 1)

\* What slurp_file reads: the file F holds one call, G two expressions.
FileText(name) ==
    IF name = "F" THEN "(car (quote (1 2)))"
    ELSE IF name = "G" THEN "1 (cons 2 3)"
    ELSE ""

\* The caller's locals after a nested evaluation N has returned.
Resumed(S, N) ==
    [N EXCEPT !.expr = S.expr, !.env = S.env, !.stack = S.stack,
              !.flow = IF N.flow = "crash" THEN "crash" ELSE "fall"]

\* The loop of load_source from position end on, parsed being what the
\* last parse left in the local of that name.
RECURSIVE LoadLoop(_, _, _, _, _)
LoadEvaluated(S, N, text, end, parsed, e) ==
    IF N.flow = "crash" \/ N.err > BAMBOO_OK THEN Resumed(S, N)
    ELSE LoadLoop(Resumed(S, N), text, end, parsed, e)
LoadParsed(S, r, text, end, e) ==
    IF r.err > BAMBOO_OK THEN bamboo_error([S EXCEPT !.m = r.m], r.err)
    ELSE IF r.err = BAMBOO_EMPTY_LINE
         THEN LoadLoop([S EXCEPT !.m = r.m, !.err = r.err], text, r.end + 1, r.v, e)
    ELSE LoadEvaluated(S, RunEval(EvalEntry([S EXCEPT !.m = r.m], r.v, e)),
                       text, r.end, r.v, e)
LoadLoop(S, text, end, parsed, e) ==
    IF CharAt(text, end) = "" THEN S
    ELSE LoadParsed(S, bamboo_parse_expr(S.m, text, end, end, parsed), text, end, e)

\* load_source(env, fname, result); the uninitialized parsed is not read
\* by the files of the model, which begin with an expression.
load_source(S, e, fname) ==
    IF FileText(fname) = ""
    THEN bamboo_error([S EXCEPT !.result = nil], BAMBOO_ERROR_UNKNOWN)
    ELSE LoadLoop([S EXCEPT !.result = nil, !.err = BAMBOO_OK], FileText(fname), 1,
                  nil, e)

\* builtin_load(args, result); the call is noted with the frame of the
\* evaluation it interrupts and the number of collections it has seen.
LoadReturned(S, N) ==
    Note(N, "load", S.stack.val, N.result, <<N.sweep.n - S.sweep.n>>)
builtin_load(S, args) ==
    IF nilp(args) THEN bamboo_error([S EXCEPT !.result = nil], BAMBOO_ERROR_ARGUMENTS)
    ELSE IF ~nilp(cdr(S.m, args))
         THEN bamboo_error([S EXCEPT !.result = nil], BAMBOO_ERROR_ARGUMENTS)
    ELSE IF car(S.m, args).type # "STRING"
         THEN bamboo_error([S EXCEPT !.result = nil], BAMBOO_ERROR_WRONG_TYPE)
    ELSE LoadReturned(S, load_source(S, bamboo_get_root_env,
                                     S.m.heap[car(S.m, args).val].str))

\* ------------------------------------------------------------------------
\* The sessions the host runs: each is a sequence of top-level forms.
\* ------------------------------------------------------------------------
Q(x) == L(<<Y("QUOTE"), x>>)

\* (define (loop n) (if (= n 0) 0 (loop (- n 1))))  (loop k)
LoopProg(k) ==
    << L(<<Y("DEFINE"), L(<<Y("LOOP"), Y("N")>>),
           L(<<Y("IF"), L(<<Y("="), Y("N"), I(0)>>), I(0),
               L(<<Y("LOOP"), L(<<Y("-"), Y("N"), I(1)>>)>>)>>)>>),
       L(<<Y("LOOP"), I(k)>>) >>

\* (define (f a b) (- a b))  (f 5 (+ 1 1))  (cons (car (quote (1 2))) (- 5 3))
OrderProg ==
    << L(<<Y("DEFINE"), L(<<Y("F"), Y("A"), Y("B")>>), L(<<Y("-"), Y("A"), Y("B")>>)>>),
       L(<<Y("F"), I(5), L(<<Y("+"), I(1), I(1)>>)>>),
       L(<<Y("CONS"), L(<<Y("CAR"), Q(L(<<I(1), I(2)>>))>>), L(<<Y("-"), I(5), I(3)>>)>>) >>

\* (define y 1)  (defmacro (m x) (quote y))  (define (f y) (m (car 1)))  (f 2)
\* (defmacro (id x) x)  (id (quote (quote z)))
MacroProg ==
    << L(<<Y("DEFINE"), Y("Y"), I(1)>>),
       L(<<Y("DEFMACRO"), L(<<Y("M"), Y("X")>>), Q(Y("Y"))>>),
       L(<<Y("DEFINE"), L(<<Y("F"), Y("Y")>>), L(<<Y("M"), L(<<Y("CAR"), I(1)>>)>>)>>),
       L(<<Y("F"), I(2)>>),
       L(<<Y("DEFMACRO"), L(<<Y("ID"), Y("X")>>), Y("X")>>),
       L(<<Y("ID"), Q(Q(Y("Z")))>>) >>

\* (define x 1)  (cons x (car (car 1)))  x  (cons (undefined) 2)
\* ((lambda (a) a))  (define (g 1) 2)  (quote)  x  (define (h x y) x)  (h 5)  x
ErrorProg ==
    << L(<<Y("DEFINE"), Y("X"), I(1)>>),
       L(<<Y("CONS"), Y("X"), L(<<Y("CAR"), L(<<Y("CAR"), I(1)>>)>>)>>),
       Y("X"),
       L(<<Y("CONS"), L(<<Y("UNDEFINED")>>), I(2)>>),
       L(<<L(<<Y("LAMBDA"), L(<<Y("A")>>), Y("A")>>)>>),
       L(<<Y("DEFINE"), L(<<Y("G"), I(1)>>), I(2)>>),
       L(<<Y("QUOTE")>>),
       Y("X"),
       L(<<Y("DEFINE"), L(<<Y("H"), Y("X"), Y("Y")>>), Y("X")>>),
       L(<<Y("H"), I(5)>>),
       Y("X") >>

\* (define (1 2) 3)
BadDefineProg ==
    << L(<<Y("DEFINE"), L(<<I(1), I(2)>>), I(3)>>) >>

\* (define x 1)  (define (g x) (define y x) (cons x y))  (g 2)  x  y
ShadowProg ==
    << L(<<Y("DEFINE"), Y("X"), I(1)>>),
       L(<<Y("DEFINE"), L(<<Y("G"), Y("X")>>),
           L(<<Y("DEFINE"), Y("Y"), Y("X")>>), L(<<Y("CONS"), Y("X"), Y("Y")>>)>>),
       L(<<Y("G"), I(2)>>),
       Y("X"),
       Y("Y") >>

\* (if (= 1 2) (car 1) 7)  (if (= 1 1) 7 (car 1))  (if () 7 (car 1))
\* (if 0 7 (car 1))  (if "" 7 (car 1))  (define (g x) (if x x (- 0 1)))
\* (g 5)  (g (= 1 2))
IfProg ==
    << L(<<Y("IF"), L(<<Y("="), I(1), I(2)>>), L(<<Y("CAR"), I(1)>>), I(7)>>),
       L(<<Y("IF"), L(<<Y("="), I(1), I(1)>>), I(7), L(<<Y("CAR"), I(1)>>)>>),
       L(<<Y("IF"), L(<<>>), I(7), L(<<Y("CAR"), I(1)>>)>>),
       L(<<Y("IF"), I(0), I(7), L(<<Y("CAR"), I(1)>>)>>),
       L(<<Y("IF"), T(""), I(7), L(<<Y("CAR"), I(1)>>)>>),
       L(<<Y("DEFINE"), L(<<Y("G"), Y("X")>>),
           L(<<Y("IF"), Y("X"), Y("X"), L(<<Y("-"), I(0), I(1)>>)>>)>>),
       L(<<Y("G"), I(5)>>),
       L(<<Y("G"), L(<<Y("="), I(1), I(2)>>)>>) >>

\* (() car (quote (1 2)))  ((quote if) 1 2 3)  (1 2)  ((quote x) 1)
NonApplicableProg ==
    << L(<<L(<<>>), Y("CAR"), Q(L(<<I(1), I(2)>>))>>),
       L(<<Q(Y("IF")), I(1), I(2), I(3)>>),
       L(<<I(1), I(2)>>),
       L(<<Q(Y("X")), I(1)>>) >>

OtherProgs ==
    <<OrderProg, MacroProg, ErrorProg, BadDefineProg, ShadowProg, IfProg,
      NonApplicableProg>>

Programs == OtherProgs \o [k \in 1..MaxIter |-> LoopProg(k)]

\* ------------------------------------------------------------------------
\* State.
\* ------------------------------------------------------------------------
VARIABLES
    heap,                    \* the allocation_t cells ever allocated
    bamboo_allocations,      \* the allocation list, newest first
    bamboo_symbol_table,     \* the symbol table
    bamboo_gc_iter_counter,  \* the iteration counter of the evaluator loop
    junk,                    \* what the bytes behind a string slot read as
    fault,                   \* a wild read has happened
    errno,                   \* errno of the C library
    repl_env,                \* the root environment the host holds
    input,                   \* the top-level forms still to be read
    pc,                      \* "read", "eval" (inside bamboo_eval_expr), "crash"
    expr, env, stack, err,   \* the locals of bamboo_eval_expr
    result,                  \* the caller's result atom
    outcomes,                \* the error code and result of each finished form
    trace, sweep,            \* observations, see the evaluator state
    prog,                    \* the session the host runs
    form,                    \* the top-level form being evaluated
    snap,                    \* the root bindings when the current form began
    host                     \* what a host calling the API directly holds

vars == <<heap, bamboo_allocations, bamboo_symbol_table, bamboo_gc_iter_counter,
          junk, fault, errno, repl_env, input, pc, expr, env, stack, err, result,
          outcomes, trace, sweep, prog, form, snap, host>>

Mem == [heap |-> heap, allocs |-> bamboo_allocations,
        symtab |-> bamboo_symbol_table, junk |-> junk, fault |-> fault,
        errno |-> errno]

Cur == [m |-> Mem, stack |-> stack, expr |-> expr, env |-> env,
        result |-> result, err |-> err, gc |-> bamboo_gc_iter_counter,
        trace |-> trace, sweep |-> sweep,
        flow |-> "fall"]

SetMem(M) ==
    /\ heap' = M.heap
    /\ bamboo_allocations' = M.allocs
    /\ bamboo_symbol_table' = M.symtab
    /\ fault' = M.fault
    /\ errno' = M.errno
    /\ junk' = M.junk

\* bamboo_init: the root environment with the built-ins.
RECURSIVE populate_builtins(_, _, _)
populate_builtins(M, e, i) ==
    IF i > Len(BuiltinNames) THEN M
    ELSE populate_builtins(bamboo_env_set_builtin(M, e, BuiltinNames[i], i), e, i + 1)

bamboo_init(j) ==
    LET M0 == [heap |-> <<>>, allocs |-> <<>>, symtab |-> nil, junk |-> j,
               fault |-> FALSE, errno |-> NoErrno]
        M1 == bamboo_env_new(M0, nil)
    IN  populate_builtins(M1, LastPair(M1), 1)

\* The first address handed out after bamboo_init.
InitTop == Top(bamboo_init(nil))

\* What gc_mark may find behind a string slot: bytes that are no
\* collectable atom, a pair pointer that meets an allocation, a pair
\* pointer that meets none.
JunkOffset == 12
JunkChoices == {nil, Atom("PAIR", InitTop + JunkOffset), Atom("PAIR", 0)}

NoSweep == [n |-> 0, before |-> <<>>, marked |-> {}, after |-> <<>>, left |-> {},
            reach |-> {},
            roots |-> <<nil, nil, nil, nil>>]

\* The last call of the host and what it returned.
NoCall == [op |-> "none", env |-> nil, name |-> "", sym |-> nil, v |-> nil,
           err |-> BAMBOO_OK, fresh |-> FALSE, func |-> nil, args |-> nil]

\* The host before it has called anything: it holds the root environment.
NoHost == [envs |-> <<Atom("PAIR", 1)>>, refs |-> {}, last |-> NoCall, ops |-> 0]

\* The bindings of one frame, in list order.
Bindings(M, e) ==
    LET items == ListToSeq(M, cdr(M, e))
    IN  [i \in DOMAIN items |-> [s |-> car(M, items[i]).val, v |-> cdr(M, items[i])]]

\* The interpreter after bamboo_init; c earlier evaluations of a literal
\* have left the iteration counter at c and nothing else behind.
Init ==
    \E p \in DOMAIN Programs, c \in 0..(GC_ITER_COUNT_SWEEP - 1), j \in JunkChoices :
        LET M == bamboo_init(j) IN
        /\ heap = M.heap
        /\ bamboo_allocations = M.allocs
        /\ bamboo_symbol_table = M.symtab
        /\ junk = j
        /\ fault = FALSE
        /\ errno = NoErrno
        /\ bamboo_gc_iter_counter = c
        /\ repl_env = Atom("PAIR", 1)
        /\ input = Programs[p]
        /\ prog = p
        /\ form = L(<<>>)
        /\ pc = "read"
        /\ expr = nil /\ env = nil /\ stack = nil /\ err = BAMBOO_OK /\ result = nil
        /\ outcomes = <<>>
        /\ trace = <<>> /\ sweep = NoSweep
        /\ snap = <<>>
        /\ host = NoHost

\* The host reads the next form and enters bamboo_eval_expr with it.
ReplRead ==
    /\ pc = "read"
    /\ input # <<>>
    /\ \E p \in {Build(Mem, Head(input))} :
        /\ SetMem(p.m)
        /\ expr' = p.v
        /\ snap' = Bindings(p.m, repl_env)
    /\ input' = Tail(input)
    /\ form' = Head(input)
    /\ env' = repl_env
    /\ stack' = nil
    /\ result' = nil
    /\ err' = BAMBOO_OK
    /\ trace' = <<>>
    /\ pc' = "eval"
    /\ UNCHANGED <<bamboo_gc_iter_counter, repl_env, outcomes, sweep, prog, host>>

\* One turn of the evaluator loop; the turn that leaves the loop returns
\* to the host, which goes on with the next form whatever the error code.
EvalStep ==
    /\ pc = "eval"
    /\ \E S \in {EvalTurn(Cur)} :
        /\ SetMem(S.m)
        /\ bamboo_gc_iter_counter' = S.gc
        /\ expr' = S.expr
        /\ env' = S.env
        /\ stack' = S.stack
        /\ err' = S.err
        /\ result' = S.result
        /\ trace' = S.trace
        /\ sweep' = S.sweep
        /\ pc' = CASE S.flow = "return" -> "read"
                   [] S.flow = "crash" -> "crash"
                   [] OTHER -> "eval"
        /\ outcomes' = IF S.flow = "return"
                       THEN Append(outcomes, [err |-> S.err, v |-> S.result])
                       ELSE outcomes
    /\ UNCHANGED <<repl_env, input, snap, prog, form, host>>

Next == ReplRead \/ EvalStep

Spec == Init /\ [][Next]_vars

\* ------------------------------------------------------------------------
\* A host that calls the library directly: bamboo_symbol, bamboo_env_new,
\* bamboo_env_set, bamboo_env_get and bamboo_eval_expr on a literal (which
\* takes one turn of the evaluator loop and may collect).
\* ------------------------------------------------------------------------
SymNames == {"X", "Y", "CAR"}
HostNames == {"X", "CAR"}
HostValues == {bamboo_int(1), bamboo_int(2)}

InitHost ==
    \E c \in 0..(GC_ITER_COUNT_SWEEP - 1), j \in JunkChoices :
        \E M \in {bamboo_init(j)} :
        /\ heap = M.heap
        /\ bamboo_allocations = M.allocs
        /\ bamboo_symbol_table = M.symtab
        /\ junk = j
        /\ fault = FALSE
        /\ errno = NoErrno
        /\ bamboo_gc_iter_counter = c
        /\ repl_env = Atom("PAIR", 1)
        /\ input = <<>>
        /\ prog = 0
        /\ form = L(<<>>)
        /\ pc = "host"
        /\ expr = nil /\ env = nil /\ stack = nil /\ err = BAMBOO_OK /\ result = nil
        /\ outcomes = <<>>
        /\ trace = <<>> /\ sweep = NoSweep
        /\ snap = <<>>
        /\ host = NoHost

EvalVars == <<repl_env, input, pc, expr, env, stack, err, result, outcomes, trace,
              prog, form, snap>>

HostCan == pc = "host" /\ host.ops < MaxHostOps

\* bamboo_symbol(name)
HostSymbol(name) ==
    /\ HostCan
    /\ \E r \in {bamboo_symbol(Mem, name)} :
        /\ SetMem(r.m)
        /\ host' = [host EXCEPT !.refs = @ \cup {<<name, r.v>>},
                                !.last = [NoCall EXCEPT !.op = "symbol", !.name = name,
                                                        !.v = r.v,
                                                        !.fresh = r.m # Mem],
                                !.ops = @ + 1]
    /\ UNCHANGED <<EvalVars, bamboo_gc_iter_counter, sweep>>

\* bamboo_env_new(parent)
HostEnvNew(parent) ==
    /\ HostCan
    /\ Len(host.envs) < MaxEnvs
    /\ \E M \in {bamboo_env_new(Mem, parent)} :
        /\ SetMem(M)
        /\ host' = [host EXCEPT !.envs = Append(@, LastPair(M)),
                                !.last = [NoCall EXCEPT !.op = "new", !.env = parent,
                                                        !.v = LastPair(M)],
                                !.ops = @ + 1]
    /\ UNCHANGED <<EvalVars, bamboo_gc_iter_counter, sweep>>

\* bamboo_env_set(e, bamboo_symbol(name), v)
HostEnvSet(e, name, v) ==
    /\ HostCan
    /\ \E s \in {bamboo_symbol(Mem, name)} :
        /\ SetMem(bamboo_env_set(s.m, e, s.v, v))
        /\ host' = [host EXCEPT !.last = [NoCall EXCEPT !.op = "set", !.env = e,
                                                        !.name = name, !.sym = s.v,
                                                        !.v = v],
                                !.ops = @ + 1]
    /\ UNCHANGED <<EvalVars, bamboo_gc_iter_counter, sweep>>

\* bamboo_env_get(e, bamboo_symbol(name), &atom) for a name interned before
HostEnvGet(e, name) ==
    /\ pc = "host"
    /\ ~nilp(SymtabFind(Mem, bamboo_symbol_table, name))
    /\ \E s \in {SymtabFind(Mem, bamboo_symbol_table, name)} :
       \E g \in {bamboo_env_get(Mem, e, s)} :
        host' = [host EXCEPT !.last = [NoCall EXCEPT !.op = "get", !.env = e,
                                                     !.name = name, !.sym = s,
                                                     !.v = g.v, !.err = g.err]]
    /\ UNCHANGED <<EvalVars, heap, bamboo_allocations, bamboo_symbol_table, junk, errno, fault,
                   bamboo_gc_iter_counter, sweep>>

\* bamboo_eval_expr(0, e, &result): one turn of the loop.  The host lets
\* go of the environments the collection has freed.
HostEval(e) ==
    /\ HostCan
    /\ \E S \in {EvalTurn([m |-> Mem, stack |-> nil, expr |-> bamboo_int(0), env |-> e,
                           result |-> nil, err |-> BAMBOO_OK,
                           gc |-> bamboo_gc_iter_counter, trace |-> <<>>,
                           sweep |-> sweep, flow |-> "fall"])} :
        /\ SetMem(S.m)
        /\ bamboo_gc_iter_counter' = S.gc
        /\ sweep' = S.sweep
        /\ pc' = IF S.flow = "crash" THEN "crash" ELSE "host"
        /\ host' = [host EXCEPT !.envs = SelectSeq(@, LAMBDA h : h.val \in Live(S.m)),
                                !.last = [NoCall EXCEPT !.op = "eval", !.env = e,
                                                        !.v = S.result, !.err = S.err],
                                !.ops = @ + 1]
    /\ UNCHANGED <<repl_env, input, expr, env, stack, err, result, outcomes, trace,
                   prog, form, snap>>

HostEnvs == {host.envs[i] : i \in DOMAIN host.envs}

\* Interning and collecting.
NextSym ==
    \/ \E name \in SymNames : HostSymbol(name)
    \/ HostEval(repl_env)

SpecSym == InitHost /\ [][NextSym]_vars

\* Building and reading environments, and collecting.
NextHost ==
    \/ \E parent \in HostEnvs : HostEnvNew(parent)
    \/ \E e \in HostEnvs, name \in HostNames, v \in HostValues : HostEnvSet(e, name, v)
    \/ \E e \in HostEnvs, name \in HostNames : HostEnvGet(e, name)
    \/ \E e \in HostEnvs : HostEval(e)

SpecHost == InitHost /\ [][NextHost]_vars

\* ------------------------------------------------------------------------
\* A host that makes a closure with bamboo_closure, binds it to F in the
\* root environment and calls it, through apply or by evaluating (F ...).
\* ------------------------------------------------------------------------
\* Number of argument values the host passes.
MaxArgs == 3

\* The parameter lists the host uses: the positional names and the name
\* of the rest parameter ("" for none).
ParamShapes ==
    { [names |-> <<>>, rest |-> ""], [names |-> <<"A">>, rest |-> ""],
      [names |-> <<"A", "B">>, rest |-> ""], [names |-> <<"A">>, rest |-> "R"],
      [names |-> <<>>, rest |-> "R"] }

\* The parameter list of a shape, built with bamboo_symbol and cons from
\* its tail.
RECURSIVE BuildParams(_, _, _, _)
BuildParamsCons(r, names, i, tail) ==
    BuildParams(cons(r.m, r.v, tail), names, i - 1, LastPair(cons(r.m, r.v, tail)))
BuildParams(M, names, i, tail) ==
    IF i = 0 THEN [m |-> M, v |-> tail]
    ELSE BuildParamsCons(bamboo_symbol(M, names[i]), names, i, tail)

ParamList(M, shape) ==
    IF shape.rest = "" THEN BuildParams(M, shape.names, Len(shape.names), nil)
    ELSE BuildParams(bamboo_symbol(M, shape.rest).m, shape.names, Len(shape.names),
                     bamboo_symbol(M, shape.rest).v)

\* The body the host gives the closure: one expression, its first
\* parameter (0 without parameters).
BodyOf(shape) ==
    IF shape.names # <<>> THEN L(<<Y(shape.names[1])>>)
    ELSE IF shape.rest # "" THEN L(<<Y(shape.rest)>>)
    ELSE L(<<I(0)>>)

\* The argument values 1 .. k as a syntax tree.
ArgForms(k) == [i \in 1..k |-> I(i)]

\* The state in which the host enters the library.
HostState(M) ==
    [m |-> M, stack |-> nil, expr |-> nil, env |-> nil, result |-> nil,
     err |-> BAMBOO_OK, gc |-> bamboo_gc_iter_counter, trace |-> <<>>,
     sweep |-> sweep, flow |-> "fall"]

HostClosures == {r[2] : r \in {q \in host.refs : q[1] = "closure"}}

\* bamboo_closure(root, params, body, &f); bamboo_env_set(root, F, f)
HostDefine(shape) ==
    /\ HostCan
    /\ HostClosures = {}
    /\ \E p \in {ParamList(Mem, shape)} :
       \E b \in {Build(p.m, BodyOf(shape))} :
       \E c \in {bamboo_closure(b.m, repl_env, p.v, b.v)} :
       \E f \in {bamboo_symbol(c.m, "F")} :
        /\ c.err = BAMBOO_OK
        /\ SetMem(bamboo_env_set(f.m, repl_env, f.v, c.v))
        /\ host' = [host EXCEPT !.refs = @ \cup {<<"closure", c.v>>},
                                !.last = [NoCall EXCEPT !.op = "define", !.v = c.v],
                                !.ops = @ + 1]
    /\ UNCHANGED <<EvalVars, bamboo_gc_iter_counter, sweep>>

\* What a call into the evaluator leaves behind.
HostReturned(S, op, func, args) ==
    /\ SetMem(S.m)
    /\ bamboo_gc_iter_counter' = S.gc
    /\ sweep' = S.sweep
    /\ pc' = IF S.flow = "crash" THEN "crash" ELSE "host"
    /\ host' = [host EXCEPT !.last = [NoCall EXCEPT !.op = op, !.func = func,
                                                    !.args = args, !.v = S.result,
                                                    !.err = S.err],
                            !.ops = @ + 1]
    /\ UNCHANGED <<repl_env, input, expr, env, stack, err, result, outcomes, trace,
                   prog, form, snap>>

\* apply(f, (1 .. k), &result)
HostApply(func, k) ==
    /\ HostCan
    /\ \E a \in {Build(Mem, L(ArgForms(k)))} :
       \E S \in {apply(HostState(a.m), func, a.v)} :
        HostReturned(S, "apply", func, a.v)

\* bamboo_eval_expr((F 1 .. k), root, &result)
HostCall(func, k) ==
    /\ HostCan
    /\ \E x \in {Build(Mem, L(<<Y("F")>> \o ArgForms(k)))} :
       \E S \in {RunEval(EvalEntry(HostState(x.m), x.v, repl_env))} :
        HostReturned(S, "call", func, cdr(x.m, x.v))

NextApply ==
    \/ \E shape \in ParamShapes : HostDefine(shape)
    \/ \E func \in HostClosures, k \in 0..MaxArgs : HostApply(func, k)
    \/ \E func \in HostClosures, k \in 0..MaxArgs : HostCall(func, k)

SpecApply == InitHost /\ [][NextApply]_vars

\* ------------------------------------------------------------------------
\* A host that reads one line the way the loop of repl() does: it calls
\* bamboo_parse_expr(end, &end, &parsed) while *end is not the NUL and the
\* last call reported no error.
\* ------------------------------------------------------------------------
\* Longest line made of ReadChars, and number of calls on one line.
MaxLine == 3
MaxParses == 2

ReadChars == {"(", ")", "'", ".", " ", "a", "1", "\""}

RECURSIVE ShortLines(_)
ShortLines(n) ==
    IF n = 0 THEN {""} ELSE {""} \cup {c \o t : c \in ReadChars, t \in ShortLines(n - 1)}

\* Longer lines: lists with a quote shorthand or a pair delimiter inside,
\* lists left open, several expressions on a line.
SampleLines ==
    { "(a 'b c)", "(a 'b)", "('a b)", "(a 'b c d)", "(a . b)", "(a . b c)",
      "(a . nil c)", "(a . () c)", "(a . nil . c)", "(a b . c)", "(1 2", "(1 (2)",
      "(1 2) 3", "(a (b) c)", "\"s\" a", "#t #f", "(a . 'b)", "a )" }

Lines == (ShortLines(MaxLine) \ {""}) \cup SampleLines

\* What the uninitialized parsed of repl() may hold.
ParsedJunk == {nil, bamboo_int(0)}

InitRead ==
    \E t \in Lines, g \in ParsedJunk :
        \E M \in {bamboo_init(nil)} :
        /\ heap = M.heap
        /\ bamboo_allocations = M.allocs
        /\ bamboo_symbol_table = M.symtab
        /\ junk = nil
        /\ fault = FALSE
        /\ errno = NoErrno
        /\ bamboo_gc_iter_counter = 0
        /\ repl_env = Atom("PAIR", 1)
        /\ input = <<>>
        /\ prog = 0
        /\ form = L(<<>>)
        /\ pc = "host"
        /\ expr = nil /\ env = nil /\ stack = nil /\ err = BAMBOO_OK /\ result = nil
        /\ outcomes = <<>>
        /\ trace = <<>> /\ sweep = NoSweep
        /\ snap = <<>>
        /\ host = [line |-> t, start |-> 1, end |-> 1, parsed |-> g,
                   err |-> BAMBOO_OK, calls |-> 0]

\* err = bamboo_parse_expr(end, &end, &parsed)
ReadParse ==
    /\ pc = "host"
    /\ host.calls < MaxParses
    /\ host.err <= BAMBOO_OK
    /\ CharAt(host.line, host.end) # ""
    /\ \E r \in {bamboo_parse_expr(Mem, host.line, host.end, host.end, host.parsed)} :
        /\ SetMem(r.m)
        /\ host' = [host EXCEPT !.start = host.end, !.end = r.end, !.parsed = r.v,
                                !.err = r.err, !.calls = @ + 1]
    /\ UNCHANGED <<EvalVars, bamboo_gc_iter_counter, sweep>>

NextRead == ReadParse

SpecRead == InitRead /\ [][NextRead]_vars

\* ------------------------------------------------------------------------
\* A host that builds a value with the constructors of the API, prints it
\* with bamboo_expr_str and parses the text with bamboo_parse_expr.
\* ------------------------------------------------------------------------
\* Number of pairs in the value.
MaxPairs == 2

\* The value as a tree: B a Boolean, P a pair; L(<<>>) is Nil.
B(b) == [k |-> "bool", n |-> IF b THEN 1 ELSE 0, s |-> "", l |-> <<>>]
P(a, d) == [k |-> "pair", n |-> 0, s |-> "", l |-> <<a, d>>]

RoundLeaves == {L(<<>>), B(TRUE), B(FALSE), I(-12), Y("A"), Y("B"), T("a b")}

RECURSIVE RoundValues(_)
RoundValues(n) ==
    IF n = 0 THEN RoundLeaves
    ELSE UNION { {P(a, d) : a \in RoundValues(i), d \in RoundValues(n - 1 - i)} :
                 i \in 0..(n - 1) }

\* bamboo_boolean, cons and the constructors of Build, the car of a pair
\* built before its cdr.
RECURSIVE BuildValue(_, _)
BuildPairCons(a, d) == [m |-> cons(d.m, a.v, d.v), v |-> Atom("PAIR", Top(d.m) + 1)]
BuildPairCdr(a, v) == BuildPairCons(a, BuildValue(a.m, v.l[2]))
BuildValue(M, v) ==
    IF v.k = "bool" THEN [m |-> M, v |-> bamboo_boolean(v.n = 1)]
    ELSE IF v.k = "pair" THEN BuildPairCdr(BuildValue(M, v.l[1]), v)
    ELSE Build(M, v)

InitRound ==
    \E n \in 0..MaxPairs :
    \E t \in RoundValues(n), g \in ParsedJunk :
        \E b \in {BuildValue(bamboo_init(nil), t)} :
        /\ heap = b.m.heap
        /\ bamboo_allocations = b.m.allocs
        /\ bamboo_symbol_table = b.m.symtab
        /\ junk = nil
        /\ fault = FALSE
        /\ errno = NoErrno
        /\ bamboo_gc_iter_counter = 0
        /\ repl_env = Atom("PAIR", 1)
        /\ input = <<>>
        /\ prog = 0
        /\ form = t
        /\ pc = "host"
        /\ expr = nil /\ env = nil /\ stack = nil /\ err = BAMBOO_OK /\ result = nil
        /\ outcomes = <<>>
        /\ trace = <<>> /\ sweep = NoSweep
        /\ snap = <<>>
        /\ host = [value |-> b.v, step |-> "built", line |-> "", start |-> 1,
                   end |-> 1, parsed |-> g, err |-> BAMBOO_OK, calls |-> 0]

\* bamboo_expr_str(&line, value)
RoundPrint ==
    /\ pc = "host"
    /\ host.step = "built"
    /\ host' = [host EXCEPT !.step = "printed", !.line = bamboo_expr_str(Mem, host.value)]
    /\ UNCHANGED <<EvalVars, heap, bamboo_allocations, bamboo_symbol_table, junk, errno, fault,
                   bamboo_gc_iter_counter, sweep>>

\* err = bamboo_parse_expr(line, &end, &parsed)
RoundParse ==
    /\ pc = "host"
    /\ host.step = "printed"
    /\ \E r \in {bamboo_parse_expr(Mem, host.line, 1, host.end, host.parsed)} :
        /\ SetMem(r.m)
        /\ host' = [host EXCEPT !.step = "read", !.end = r.end, !.parsed = r.v,
                                !.err = r.err, !.calls = @ + 1]
    /\ UNCHANGED <<EvalVars, bamboo_gc_iter_counter, sweep>>

NextRound == RoundPrint \/ RoundParse

SpecRound == InitRound /\ [][NextRound]_vars

\* ------------------------------------------------------------------------
\* A host that interns symbols, tears the interpreter down with
\* bamboo_destroy and goes on with bamboo_init or bamboo_symbol.
\* ------------------------------------------------------------------------
\* The cells the loop of bamboo_symbol reads while it looks for name: each
\* pair of the table it visits and the string of the symbol in its car.
RECURSIVE SymtabReads(_, _, _)
SymtabReads(M, tmp, name) ==
    IF nilp(tmp) THEN {}
    ELSE IF M.heap[car(M, tmp).val].str = name THEN {tmp.val, car(M, tmp).val}
    ELSE {tmp.val, car(M, tmp).val} \cup SymtabReads(M, cdr(M, tmp), name)

\* bamboo_symbol(name) would read a cell that has been freed.
ReadsFreed(M, name) == ~(SymtabReads(M, M.symtab, name) \subseteq Live(M))

\* The symbol table refers to a freed allocation.
StaleSymtab == bamboo_symbol_table.type = "PAIR" /\ bamboo_symbol_table.val \notin Live(Mem)

\* The memory after a read of freed cells that found their old contents.
Faulted(M) == [M EXCEPT !.fault = TRUE]

\* bamboo_destroy(&env)
HostDestroy ==
    /\ HostCan
    /\ SetMem(gc(Mem, FALSE))
    /\ host' = [host EXCEPT !.last = [NoCall EXCEPT !.op = "destroy"], !.ops = @ + 1]
    /\ UNCHANGED <<EvalVars, bamboo_gc_iter_counter, sweep>>

\* A call that read freed cells and crashed.
HostCrashed(op, name) ==
    /\ pc' = "crash"
    /\ fault' = TRUE
    /\ host' = [host EXCEPT !.last = [NoCall EXCEPT !.op = op, !.name = name],
                            !.ops = @ + 1]
    /\ UNCHANGED <<heap, bamboo_allocations, bamboo_symbol_table, junk, errno, repl_env, input,
                   expr, env, stack, err, result, outcomes, trace, prog, form, snap,
                   bamboo_gc_iter_counter, sweep>>

\* bamboo_symbol(name) in whatever state the interpreter is: a read of a
\* freed cell crashes or finds what the cell held.
TeardownSymbol(name) ==
    /\ HostCan
    /\ \/ /\ ReadsFreed(Mem, name)
          /\ HostCrashed("symbol", name)
       \/ \E r \in {bamboo_symbol(Mem, name)} :
            /\ SetMem(IF ReadsFreed(Mem, name) THEN Faulted(r.m) ELSE r.m)
            /\ host' = [host EXCEPT !.refs = @ \cup {<<name, r.v>>},
                                    !.last = [NoCall EXCEPT !.op = "symbol",
                                                            !.name = name, !.v = r.v,
                                                            !.fresh = r.m # Mem],
                                    !.ops = @ + 1]
            /\ UNCHANGED <<EvalVars, bamboo_gc_iter_counter, sweep>>

\* bamboo_init on the memory M: the iteration counter is zeroed, *env is
\* a new environment, populate_builtins fills it.
InitAgain(M) == populate_builtins(bamboo_env_new(M, nil), Atom("PAIR", Top(M) + 1), 1)

\* bamboo_init(&env) after bamboo_destroy
HostInitAgain ==
    /\ HostCan
    /\ bamboo_allocations = <<>>
    /\ \/ /\ ReadsFreed(Mem, BuiltinNames[1])
          /\ HostCrashed("init", "")
       \/ /\ SetMem(IF ReadsFreed(Mem, BuiltinNames[1]) THEN Faulted(InitAgain(Mem))
                    ELSE InitAgain(Mem))
          /\ bamboo_gc_iter_counter' = 0
          /\ repl_env' = Atom("PAIR", Top(Mem) + 1)
          /\ host' = [host EXCEPT !.envs = <<Atom("PAIR", Top(Mem) + 1)>>,
                                  !.last = [NoCall EXCEPT !.op = "init"], !.ops = @ + 1]
          /\ UNCHANGED <<input, pc, expr, env, stack, err, result, outcomes, trace,
                         prog, form, snap, sweep>>

NextTeardown ==
    \/ \E name \in SymNames : TeardownSymbol(name)
    \/ HostDestroy
    \/ HostInitAgain

SpecTeardown == InitHost /\ [][NextTeardown]_vars

\* ------------------------------------------------------------------------
\* The LOAD primitive of the REPL (repl/functions.c) and a REPL session
\* that uses it: LOAD re-enters bamboo_parse_expr and bamboo_eval_expr
\* from inside a turn of the evaluator loop.
\* ------------------------------------------------------------------------
\* (load "F")  (cons 1 (load "F"))  (cons (load "G") 1)  (load)  (load 1)
LoadProg ==
    << L(<<Y("LOAD"), T("F")>>),
       L(<<Y("CONS"), I(1), L(<<Y("LOAD"), T("F")>>)>>),
       L(<<Y("CONS"), L(<<Y("LOAD"), T("G")>>), I(1)>>),
       L(<<Y("LOAD")>>),
       L(<<Y("LOAD"), I(1)>>) >>

\* (define (f a) (cons a (load "F")))  (f 5)
LoadInClosureProg ==
    << L(<<Y("DEFINE"), L(<<Y("F"), Y("A")>>),
           L(<<Y("CONS"), Y("A"), L(<<Y("LOAD"), T("F")>>)>>)>>),
       L(<<Y("F"), I(5)>>) >>

LoadPrograms == <<LoadProg, LoadInClosureProg>>

\* The REPL after bamboo_init and repl_populate_builtins.
InitLoad ==
    \E p \in DOMAIN LoadPrograms, c \in 0..(GC_ITER_COUNT_SWEEP - 1), j \in JunkChoices :
        \E M \in {bamboo_env_set_builtin(bamboo_init(j), Atom("PAIR", 1), "LOAD",
                                         LoadBuiltin)} :
        /\ heap = M.heap
        /\ bamboo_allocations = M.allocs
        /\ bamboo_symbol_table = M.symtab
        /\ junk = j
        /\ fault = FALSE
        /\ errno = NoErrno
        /\ bamboo_gc_iter_counter = c
        /\ repl_env = Atom("PAIR", 1)
        /\ input = LoadPrograms[p]
        /\ prog = p
        /\ form = L(<<>>)
        /\ pc = "read"
        /\ expr = nil /\ env = nil /\ stack = nil /\ err = BAMBOO_OK /\ result = nil
        /\ outcomes = <<>>
        /\ trace = <<>> /\ sweep = NoSweep
        /\ snap = <<>>
        /\ host = NoHost

SpecLoad == InitLoad /\ [][Next]_vars

\* ------------------------------------------------------------------------
\* Sessions that call a function through APPLY and then directly on the
\* quoted elements of the same list.  The elements are expressions that
\* fail when they are evaluated (an unbound symbol, a call of CAR on a
\* number); the closure bodies make no call.
\* ------------------------------------------------------------------------
ApplyCases ==
    << [defs |-> <<>>, f |-> Y("+"), vals |-> <<I(1), I(2)>>],
       [defs |-> <<>>, f |-> Y("CAR"), vals |-> <<L(<<I(7), I(8)>>)>>],
       [defs |-> <<>>, f |-> Y("CAR"), vals |-> <<I(1), I(2)>>],
       [defs |-> <<>>, f |-> Y("+"), vals |-> <<>>],
       [defs |-> <<L(<<Y("DEFINE"), Y("G"),
                       L(<<Y("LAMBDA"), L(<<Y("A"), Y("B")>>), Y("B")>>)>>)>>,
        f |-> Y("G"), vals |-> <<L(<<Y("CAR"), I(1)>>), Y("Z")>>],
       [defs |-> <<L(<<Y("DEFINE"), Y("H"),
                       L(<<Y("LAMBDA"), L(<<Y("A"), Y("B")>>), Y("A"), Y("B")>>)>>)>>,
        f |-> Y("H"), vals |-> <<I(4), Y("Z")>>],
       [defs |-> <<L(<<Y("DEFINE"), Y("G"),
                       L(<<Y("LAMBDA"), L(<<Y("A"), Y("B")>>), Y("B")>>)>>)>>,
        f |-> Y("G"), vals |-> <<I(1)>>],
       [defs |-> <<>>, f |-> L(<<Y("LAMBDA"), L(<<Y("A")>>), Y("A")>>),
        vals |-> <<Y("Z")>>] >>

\* (apply f (quote (v1 ... vn))) and (f (quote v1) ... (quote vn))
ApplyCall(c) == L(<<Y("APPLY"), c.f, Q(L(c.vals))>>)
DirectCall(c) == L(<<c.f>> \o [i \in DOMAIN c.vals |-> Q(c.vals[i])])
ApplySession(c) == c.defs \o <<ApplyCall(c), DirectCall(c)>>

\* APPLY on a second argument that is no proper list.
ImproperProg ==
    << L(<<Y("APPLY"), Y("CAR"), I(5)>>),
       L(<<Y("APPLY"), Y("CAR"), L(<<Y("CONS"), I(1), I(2)>>)>>) >>

ApplyPrograms == [i \in DOMAIN ApplyCases |-> ApplySession(ApplyCases[i])] \o <<ImproperProg>>

InitApplyForm ==
    \E p \in DOMAIN ApplyPrograms, c \in 0..(GC_ITER_COUNT_SWEEP - 1), j \in JunkChoices :
        \E M \in {bamboo_init(j)} :
        /\ heap = M.heap
        /\ bamboo_allocations = M.allocs
        /\ bamboo_symbol_table = M.symtab
        /\ junk = j
        /\ fault = FALSE
        /\ errno = NoErrno
        /\ bamboo_gc_iter_counter = c
        /\ repl_env = Atom("PAIR", 1)
        /\ input = ApplyPrograms[p]
        /\ prog = p
        /\ form = L(<<>>)
        /\ pc = "read"
        /\ expr = nil /\ env = nil /\ stack = nil /\ err = BAMBOO_OK /\ result = nil
        /\ outcomes = <<>>
        /\ trace = <<>> /\ sweep = NoSweep
        /\ snap = <<>>
        /\ host = NoHost

SpecApplyForm == InitApplyForm /\ [][Next]_vars

\* ------------------------------------------------------------------------
\* gc_mark call by call.  The host has built a graph of pairs (with cons
\* and assignments through car and cdr) over one symbol; host.todo holds
\* the calls of gc_mark still to be made, the innermost first; host.visits
\* counts, for every allocation, the calls that went past the mark test,
\* and host.reads holds the allocations whose atom[0] and atom[1] were
\* read.
\* ------------------------------------------------------------------------
MaxCells == 2

\* The allocations: the string of the symbol, then the pairs.
MarkCells == 1..(MaxCells + 1)
MarkRefs == {nil, Atom("SYMBOL", 1)} \cup {Atom("PAIR", c) : c \in 2..(MaxCells + 1)}
MarkGraphs == [2..(MaxCells + 1) -> MarkRefs \X MarkRefs]
MarkHeap(g, j) ==
    [c \in MarkCells |-> IF c = 1 THEN StringCell("S", j)
                         ELSE PairCell(g[c][1], g[c][2])]
RECURSIVE Down(_)
Down(n) == IF n = 0 THEN <<>> ELSE <<n>> \o Down(n - 1)

InitMark ==
    \E g \in MarkGraphs, j \in JunkChoices, r \in {Atom("PAIR", 2), Atom("SYMBOL", 1)} :
        /\ heap = MarkHeap(g, j)
        /\ bamboo_allocations = Down(MaxCells + 1)
        /\ bamboo_symbol_table = nil
        /\ junk = j
        /\ fault = FALSE
        /\ errno = NoErrno
        /\ bamboo_gc_iter_counter = 0
        /\ repl_env = nil
        /\ input = <<>>
        /\ prog = 0
        /\ form = L(<<>>)
        /\ pc = "host"
        /\ expr = nil /\ env = nil /\ stack = nil /\ err = BAMBOO_OK /\ result = nil
        /\ outcomes = <<>>
        /\ trace = <<>> /\ sweep = NoSweep
        /\ snap = <<>>
        /\ host = [root |-> r, todo |-> <<r>>, visits |-> [c \in MarkCells |-> 0],
                   reads |-> {}]

\* The mark test is left out.
NeverInUse(M, root) == FALSE

\* if (alloc->mark == GC_IN_USE) return;
InUse(M, root) == M.heap[root.val].mark = GC_IN_USE

\* One call gc_mark(root), root being the head of host.todo: up to the
\* two calls it makes itself, which are put in front of the pending ones.
GcMarkCall ==
    /\ pc = "host" /\ ~fault /\ host.todo # <<>>
    /\ \E root \in {Head(host.todo)} :
        IF root.type \notin Collectable
        THEN /\ host' = [host EXCEPT !.todo = Tail(@)]
             /\ UNCHANGED <<heap, bamboo_allocations, bamboo_symbol_table, junk, errno, fault>>
        ELSE IF root.val \notin Live(Mem)
        THEN /\ fault' = TRUE
             /\ UNCHANGED <<heap, bamboo_allocations, bamboo_symbol_table, junk, errno, host>>
        ELSE IF InUse(Mem, root)
        THEN /\ host' = [host EXCEPT !.todo = Tail(@)]
             /\ UNCHANGED <<heap, bamboo_allocations, bamboo_symbol_table, junk, errno, fault>>
        ELSE /\ heap' = [heap EXCEPT ![root.val].mark = GC_IN_USE]
             /\ host' = [host EXCEPT !.todo = <<car(Mem, root), cdr(Mem, root)>> \o Tail(@),
                                     !.visits[root.val] = @ + 1,
                                     !.reads = @ \cup {root.val}]
             /\ UNCHANGED <<bamboo_allocations, bamboo_symbol_table, junk, errno, fault>>
    /\ UNCHANGED <<EvalVars, bamboo_gc_iter_counter, sweep>>

NextMark == GcMarkCall

\* The calls follow one another: a call that can be made is made.
SpecMark == InitMark /\ [][NextMark]_vars /\ WF_vars(GcMarkCall)

\* ------------------------------------------------------------------------
\* Sessions with a definition whose parameter list bamboo_closure rejects.
\* ------------------------------------------------------------------------
\* (define f 7)  (define (f 1) 2)  f
DefineFailProg ==
    << L(<<Y("DEFINE"), Y("F"), I(7)>>),
       L(<<Y("DEFINE"), L(<<Y("F"), I(1)>>), I(2)>>),
       Y("F") >>
\* (define (g 1) 2)  g
DefineNewFailProg ==
    << L(<<Y("DEFINE"), L(<<Y("G"), I(1)>>), I(2)>>),
       Y("G") >>
\* (define m 7)  (defmacro (m 1) 2)  m
DefmacroFailProg ==
    << L(<<Y("DEFINE"), Y("M"), I(7)>>),
       L(<<Y("DEFMACRO"), L(<<Y("M"), I(1)>>), I(2)>>),
       Y("M") >>
\* (define (f a) a)  (define (f 1) 2)  (f 5)
RedefineFailProg ==
    << L(<<Y("DEFINE"), L(<<Y("F"), Y("A")>>), Y("A")>>),
       L(<<Y("DEFINE"), L(<<Y("F"), I(1)>>), I(2)>>),
       L(<<Y("F"), I(5)>>) >>

DefinePrograms == <<DefineFailProg, DefineNewFailProg, DefmacroFailProg, RedefineFailProg>>

InitDefine ==
    \E p \in DOMAIN DefinePrograms, c \in 0..(GC_ITER_COUNT_SWEEP - 1), j \in JunkChoices :
        \E M \in {bamboo_init(j)} :
        /\ heap = M.heap
        /\ bamboo_allocations = M.allocs
        /\ bamboo_symbol_table = M.symtab
        /\ junk = j
        /\ fault = FALSE
        /\ errno = NoErrno
        /\ bamboo_gc_iter_counter = c
        /\ repl_env = Atom("PAIR", 1)
        /\ input = DefinePrograms[p]
        /\ prog = p
        /\ form = L(<<>>)
        /\ pc = "read"
        /\ expr = nil /\ env = nil /\ stack = nil /\ err = BAMBOO_OK /\ result = nil
        /\ outcomes = <<>>
        /\ trace = <<>> /\ sweep = NoSweep
        /\ snap = <<>>
        /\ host = NoHost

SpecDefine == InitDefine /\ [][Next]_vars

\* ------------------------------------------------------------------------
\* A host that parses numeric tokens, one line after the other.
\* ------------------------------------------------------------------------
\* The lines: the two extreme integers, integers beyond them, and numbers
\* well inside the range.
NumLines ==
    { "32767", "-32768", "99999", "-99999", "32766", "-32767", "5", "-5", "077",
      "0x7F", "1.5", "99999.5" }

InitNum ==
    \E t \in NumLines :
        \E M \in {bamboo_init(nil)} :
        /\ heap = M.heap
        /\ bamboo_allocations = M.allocs
        /\ bamboo_symbol_table = M.symtab
        /\ junk = nil
        /\ fault = FALSE
        /\ errno = NoErrno
        /\ bamboo_gc_iter_counter = 0
        /\ repl_env = Atom("PAIR", 1)
        /\ input = <<>>
        /\ prog = 0
        /\ form = L(<<>>)
        /\ pc = "host"
        /\ expr = nil /\ env = nil /\ stack = nil /\ err = BAMBOO_OK /\ result = nil
        /\ outcomes = <<>>
        /\ trace = <<>> /\ sweep = NoSweep
        /\ snap = <<>>
        /\ host = [line |-> t, start |-> 1, end |-> 1, parsed |-> nil,
                   err |-> BAMBOO_OK, calls |-> 0]

\* repl_readline: the line has been parsed to its end, or a parse has
\* failed, and the host takes the next line.
NumReadLine ==
    /\ pc = "host"
    /\ host.calls < MaxParses
    /\ host.err > BAMBOO_OK \/ CharAt(host.line, host.end) = ""
    /\ \E t \in NumLines :
        host' = [host EXCEPT !.line = t, !.start = 1, !.end = 1, !.err = BAMBOO_OK]
    /\ UNCHANGED <<EvalVars, heap, bamboo_allocations, bamboo_symbol_table, junk, errno,
                   fault, bamboo_gc_iter_counter, sweep>>

NextNum == ReadParse \/ NumReadLine

SpecNum == InitNum /\ [][NextNum]_vars

\* ------------------------------------------------------------------------
\* The parse-evaluate loops of the hosts: the inner loop of repl() over one
\* line (repl/main.c) and the loop of load_source over the contents of a
\* file (repl/functions.c).
\* ------------------------------------------------------------------------
\* The texts: complete expressions, alone and several on a line, text
\* after the last expression, a stray `)`, lists left open, expressions
\* whose evaluation fails.
LoopLines ==
    { "1", "1 2", "(cons 1 2)", "(cons 1 2) 2", "'a 1", "(car 1) 2", "a 1", ")",
      "1 )", "1 ) 2", "(", "(1 2", "1 (", " ", "1 ", " 1", "\"s\"", "(quote" }

LoopHosts == {"repl", "load_source"}

InitLoop ==
    \E t \in LoopLines, h \in LoopHosts, g \in ParsedJunk,
       c \in 0..(GC_ITER_COUNT_SWEEP - 1) :
        \E M \in {bamboo_init(nil)} :
        /\ heap = M.heap
        /\ bamboo_allocations = M.allocs
        /\ bamboo_symbol_table = M.symtab
        /\ junk = nil
        /\ fault = FALSE
        /\ errno = NoErrno
        /\ bamboo_gc_iter_counter = c
        /\ repl_env = Atom("PAIR", 1)
        /\ input = <<>>
        /\ prog = 0
        /\ form = L(<<>>)
        /\ pc = "host"
        /\ expr = nil /\ env = nil /\ stack = nil /\ err = BAMBOO_OK /\ result = nil
        /\ outcomes = <<>>
        /\ trace = <<>> /\ sweep = NoSweep
        /\ snap = <<>>
        /\ host = [line |-> t, loop |-> h, at |-> "while", start |-> 1, end |-> 1,
                   parsed |-> g, err |-> BAMBOO_OK, result |-> nil]

\* err = bamboo_eval_expr(parsed, env, &result) and the test that follows
\* it: an error leaves the loop (goto next, goto stop), anything else goes
\* back to the test of the while.
LoopEvaluated(S, r) ==
    /\ SetMem(S.m)
    /\ bamboo_gc_iter_counter' = S.gc
    /\ pc' = IF S.flow = "crash" THEN "crash" ELSE "host"
    /\ host' = [host EXCEPT !.start = host.end, !.end = r.end, !.parsed = r.v,
                            !.err = S.err, !.result = S.result,
                            !.at = IF S.err > BAMBOO_OK THEN "out" ELSE "while"]

\* The body of the while after err = bamboo_parse_expr(end, &end, &parsed):
\* an error leaves the loop; load_source steps over the character at the
\* cursor on BAMBOO_EMPTY_LINE and goes back to the test; everything else,
\* the other special conditions included, goes on to the evaluation.
LoopParsed(r) ==
    IF r.err > BAMBOO_OK
    THEN /\ SetMem(r.m)
         /\ host' = [host EXCEPT !.start = host.end, !.end = r.end, !.parsed = r.v,
                                 !.err = r.err, !.at = "out"]
         /\ UNCHANGED <<bamboo_gc_iter_counter, pc>>
    ELSE IF host.loop = "load_source" /\ r.err = BAMBOO_EMPTY_LINE
    THEN /\ SetMem(r.m)
         /\ host' = [host EXCEPT !.start = host.end, !.end = r.end + 1, !.parsed = r.v,
                                 !.err = r.err, !.at = "while"]
         /\ UNCHANGED <<bamboo_gc_iter_counter, pc>>
    ELSE \E S \in {RunEval(EvalEntry(HostState(r.m), r.v, repl_env))} :
            LoopEvaluated(S, r)

\* while (*end != '\0'): the test finds the terminating NUL and the loop
\* is left, or it finds a character and the body is entered.
LoopTest ==
    /\ pc = "host" /\ host.at = "while"
    /\ host' = [host EXCEPT !.at = IF CharAt(host.line, host.end) = "" THEN "out"
                                   ELSE "body"]
    /\ UNCHANGED <<EvalVars, heap, bamboo_allocations, bamboo_symbol_table, junk, errno,
                   fault, bamboo_gc_iter_counter, sweep>>

\* The body of the while, once.
LoopBody ==
    /\ pc = "host" /\ host.at = "body"
    /\ \E r \in {bamboo_parse_expr(Mem, host.line, host.end, host.end, host.parsed)} :
        LoopParsed(r)
    /\ UNCHANGED <<repl_env, input, expr, env, stack, err, result, outcomes, trace,
                   prog, form, snap, sweep>>

NextLoop == LoopTest \/ LoopBody

\* The host is a sequential program, the statement it is at is executed:
\* the test is made when control is at the while, and control does not
\* stay in front of the body for ever (the body can always be executed
\* and moves control, so that this is weak fairness of LoopBody).
SpecLoop ==
    InitLoop /\ [][NextLoop]_vars /\ WF_vars(LoopTest) /\ []<>(host.at # "body")

\* ------------------------------------------------------------------------
\* Properties of the evaluator sessions (specification Spec).
\* ------------------------------------------------------------------------
EvalRoots == {bamboo_symbol_table, expr, env, stack}

RECURSIVE StackDepth(_, _)
StackDepth(M, st) == IF nilp(st) THEN 0 ELSE 1 + StackDepth(M, car(M, st))

C2_GcCompleteness ==
    /\ (sweep.n > 0 /\ ~fault) =>
        /\ sweep.after = SelectSeq(sweep.before, LAMBDA a : a \in sweep.marked)
        /\ sweep.left = {}
        /\ sweep.reach \subseteq sweep.marked
        /\ nilp(junk) => sweep.marked = sweep.reach
        /\ \A i \in DOMAIN sweep.before :
              sweep.before[i] \notin sweep.marked => sweep.before[i] \notin Live(Mem)
    /\ ~fault => Marked(Mem) = {}

\* A collection has kept some allocations and freed others.
C2_Witness ==
    /\ sweep.n > 0 /\ nilp(junk)
    /\ sweep.after # <<>>
    /\ Len(sweep.after) < Len(sweep.before)

\* The stack depth the tail-recursive loop never exceeds.
TailDepthBound == 2
LoopSessions == {p \in DOMAIN Programs : p > Len(OtherProgs)}

\* C3 -- proper tail calls: the frame of an entered closure is popped
\* before its last body expression is evaluated, and while the loop
\* (define (loop n) (if (= n 0) 0 (loop (- n 1)))) runs the trampoline
\* stack never holds more than TailDepthBound frames, however many times
\* the loop goes round.
C3_TailCalls ==
    /\ [][(trace' # trace /\ trace' # <<>>
            /\ trace'[Len(trace')].k = "exec" /\ nilp(trace'[Len(trace')].l[1]))
             => /\ stack' = car(Mem', Atom("PAIR", trace'[Len(trace')].f))
                /\ expr' = trace'[Len(trace')].a]_vars
    /\ []((prog \in LoopSessions /\ pc = "eval")
             => StackDepth(Mem, stack) <= TailDepthBound)

\* The loop closure has been entered for the last time of the longest run.
C3_Witness ==
    /\ Programs[prog] = LoopProg(MaxIter)
    /\ pc = "eval"
    /\ Len(SelectSeq(trace, LAMBDA ev : ev.k = "bind")) = MaxIter + 1
    /\ StackDepth(Mem, stack) = TailDepthBound

\* The events of the frame f of a call, in the order they happened.
FrameEvents(f) ==
    SelectSeq(trace, LAMBDA ev : ev.f = f /\ ev.k \in {"push", "op", "next", "arg", "apply", "bind"})

\* The frames pushed for calls whose operator has been evaluated to a
\* Builtin or a Closure.
CallFrames ==
    {f \in {trace[i].f : i \in {j \in DOMAIN trace : trace[j].k = "push"}} :
        /\ Len(FrameEvents(f)) >= 2
        /\ FrameEvents(f)[2].a.type \in {"BUILTIN", "CLOSURE"}}

\* The argument expressions of a call expression, in source order.
ArgExprs(call) == ListToSeq(Mem, cdr(Mem, call))

\* C4 -- evaluation order: for a call (f a1 ... an) whose operator is a
\* Builtin or a Closure the frame sees, in this order, the operator value,
\* then for i = 1..n the expression ai taken and its value stored before
\* a(i+1) is taken, and only then the application, which receives the
\* stored values in source order (a literal's value is the literal); so
\* (f 5 (+ 1 1)) with f = (lambda (a b) (- a b)) is 3 and
\* (cons (car (quote (1 2))) (- 5 3)) is (1 . 2).
C4_EvaluationOrder ==
    /\ \A f \in CallFrames :
          LET E == FrameEvents(f)
              a == ArgExprs(E[1].a)
          IN  /\ E[1].k = "push"
              /\ E[2].k = "op"
              /\ \A i \in 3..Len(E) :
                    /\ E[i].k \in {"next", "arg", "apply", "bind"}
                    /\ E[i].k = "next" =>
                          /\ i % 2 = 1 /\ (i - 1) \div 2 <= Len(a)
                          /\ E[i].a = a[(i - 1) \div 2]
                    /\ E[i].k = "arg" =>
                          /\ i % 2 = 0 /\ E[i - 1].k = "next"
                          /\ E[i - 1].a.type = "INTEGER" => E[i].a = E[i - 1].a
                    /\ E[i].k \in {"apply", "bind"} =>
                          /\ i = Len(E) /\ i = 2 * Len(a) + 3
                          /\ E[i].l = [j \in 1..Len(a) |-> E[2 * j + 2].a]
    /\ (Programs[prog] = OrderProg /\ Len(outcomes) >= 2) =>
          outcomes[2] = [err |-> BAMBOO_OK, v |-> bamboo_int(3)]
    /\ (Programs[prog] = OrderProg /\ Len(outcomes) >= 3) =>
          /\ outcomes[3].err = BAMBOO_OK /\ outcomes[3].v.type = "PAIR"
          /\ car(Mem, outcomes[3].v) = bamboo_int(1)
          /\ cdr(Mem, outcomes[3].v) = bamboo_int(2)

\* A builtin has been applied to two different values that nested calls
\* produced, after the closure call of the session has returned.
C4_Witness ==
    /\ Programs[prog] = OrderProg /\ Len(outcomes) = 3
    /\ \E i \in DOMAIN trace :
          /\ trace[i].k = "apply" /\ trace[i].f \in CallFrames
          /\ Len(trace[i].l) = 2 /\ trace[i].l[1] # trace[i].l[2]

\* The places of the trace where an operator has evaluated to a Macro.
MacroOps == {i \in DOMAIN trace : trace[i].k = "op" /\ trace[i].a.type = "MACRO"}

\* The push event of the frame f.
PushOf(f) == FrameEvents(f)[1]

\* C5 -- macro expansion: once the operator of a frame has evaluated to a
\* Macro, the frame never takes or stores an argument; the next thing to
\* happen is the binding of the macro's parameters, to the argument
\* expressions of the call themselves, in a fresh environment whose parent
\* is the environment the macro captured; the frame is expanded at most
\* once, and the expansion becomes the current expression with the
\* environment of the call site current; so with y = 1 at the root,
\* m = (macro (x) (quote y)) and f = (lambda (y) (m (car 1))), (f 2) is 2,
\* and with id = (macro (x) x), (id (quote (quote z))) is (QUOTE Z).
C5_MacroExpansion ==
    /\ [](\A i \in MacroOps :
             LET f == trace[i].f
             IN  /\ \A j \in DOMAIN trace :
                       (trace[j].f = f /\ j # i) => trace[j].k \in {"push", "expand"}
                 /\ i < Len(trace) =>
                       /\ trace[i + 1].k \in {"bind", "raise"}
                       /\ trace[i + 1].k = "bind" =>
                             /\ trace[i + 1].l = ArgExprs(PushOf(f).a)
                             /\ car(Mem, trace[i + 1].a) = car(Mem, trace[i].a)
                             /\ trace[i + 1].a.val > f
                 /\ Cardinality({j \in DOMAIN trace :
                                    trace[j].k = "expand" /\ trace[j].f = f}) <= 1
                 /\ \A j \in DOMAIN trace :
                       (trace[j].k = "expand" /\ trace[j].f = f) =>
                           j > i /\ trace[j].l[1] = PushOf(f).l[1])
    /\ [][(trace' # trace /\ trace' # <<>> /\ trace'[Len(trace')].k = "expand")
             => /\ expr' = trace'[Len(trace')].a
                /\ env' = trace'[Len(trace')].l[1]]_vars
    /\ []((Programs[prog] = MacroProg /\ Len(outcomes) >= 4) =>
             outcomes[4] = [err |-> BAMBOO_OK, v |-> bamboo_int(2)])
    /\ []((Programs[prog] = MacroProg /\ Len(outcomes) >= 6) =>
             /\ outcomes[6].err = BAMBOO_OK
             /\ Len(ListToSeq(Mem, outcomes[6].v)) = 2
             /\ SymName(Mem, car(Mem, outcomes[6].v)) = "QUOTE"
             /\ SymName(Mem, car(Mem, cdr(Mem, outcomes[6].v))) = "Z")

\* A macro called inside a closure has been expanded and its expansion
\* evaluated in that session.
C5_Witness ==
    /\ Programs[prog] = MacroProg /\ Len(outcomes) = 4
    /\ \E i \in MacroOps : \E j \in DOMAIN trace :
          /\ trace[j].k = "expand" /\ trace[j].f = trace[i].f
          /\ trace[j].l[1] # repl_env

\* C6 -- error propagation: an error code raised by a step of an
\* evaluation is the last thing that happens in it: the call has returned
\* and the code it returned is the code raised.
C6_ErrorPropagation ==
    \A i \in DOMAIN trace :
        trace[i].k = "raise" =>
            /\ i = Len(trace)
            /\ pc # "eval"
            /\ outcomes # <<>>
            /\ outcomes[Len(outcomes)].err = trace[i].f

\* The names a form defines: the targets of its DEFINE and DEFMACRO forms.
RECURSIVE Defines(_)
Defines(sx) ==
    IF sx.k # "list" THEN {}
    ELSE (IF Len(sx.l) >= 2 /\ sx.l[1].k = "sym" /\ sx.l[1].s \in {"DEFINE", "DEFMACRO"}
          THEN IF sx.l[2].k = "sym" THEN {sx.l[2].s}
               ELSE IF sx.l[2].k = "list" /\ sx.l[2].l # <<>> /\ sx.l[2].l[1].k = "sym"
                    THEN {sx.l[2].l[1].s}
               ELSE {}
          ELSE {})
         \cup UNION {Defines(sx.l[i]) : i \in DOMAIN sx.l}

\* The last form has returned an error.
FormFailed ==
    pc = "read" /\ outcomes # <<>> /\ outcomes[Len(outcomes)].err > BAMBOO_OK

SymtabEntries == ListToSeq(Mem, bamboo_symbol_table)

\* The cells of the symbol table list itself.
RECURSIVE ListCells(_, _)
ListCells(M, list) ==
    IF list.type # "PAIR" THEN {} ELSE {list.val} \cup ListCells(M, cdr(M, list))

\* C8 -- symbol interning: whatever bamboo_symbol calls and collecting
\* evaluations the host has made, the references returned for one name are
\* one reference, which is listed in the symbol table under that name;
\* the table lists no name twice; and, unless a collection has crashed,
\* every name allocation the table lists and the table's own cells are
\* still allocated.
C8_SymbolInterning ==
    /\ \A p \in host.refs : \A q \in host.refs : p[1] = q[1] => p[2] = q[2]
    /\ \A p \in host.refs :
          \E i \in DOMAIN SymtabEntries :
              SymtabEntries[i] = p[2] /\ SymName(Mem, p[2]) = p[1]
    /\ \A i \in DOMAIN SymtabEntries : \A k \in DOMAIN SymtabEntries :
          SymName(Mem, SymtabEntries[i]) = SymName(Mem, SymtabEntries[k]) => i = k
    /\ ~fault =>
          /\ \A i \in DOMAIN SymtabEntries : SymtabEntries[i].val \in Live(Mem)
          /\ ListCells(Mem, bamboo_symbol_table) \subseteq Live(Mem)

\* A name bound nowhere has been interned, a collection has swept the
\* allocation list with its allocation on it, and a second call with the
\* name has returned the reference of the first.
C8_Witness ==
    /\ host.last.op = "symbol" /\ ~host.last.fresh /\ ~fault
    /\ host.last.name = "X"
    /\ sweep.n > 0
    /\ \E i \in DOMAIN sweep.before : sweep.before[i] = host.last.v.val

\* The frames from e to the root, e first.
RECURSIVE Chain(_, _)
Chain(M, e) == IF nilp(e) THEN <<>> ELSE <<e>> \o Chain(M, car(M, e))

\* The places of the binding list of the frame fr that bind the symbol s.
Binds(M, fr, s) == {i \in DOMAIN Bindings(M, fr) : Bindings(M, fr)[i].s = s.val}

Least(S) == CHOOSE x \in S : \A y \in S : x <= y

\* What a lookup of s from e is to return: the value of the first binding
\* of s in the nearest frame binding it, the unbound-symbol error with Nil
\* when no frame of the chain binds it.
Nearest(M, e, s) ==
    LET ch == Chain(M, e)
        hit == {k \in DOMAIN ch : Binds(M, ch[k], s) # {}}
    IN  IF hit = {} THEN [err |-> BAMBOO_ERROR_UNBOUND, v |-> nil]
        ELSE [err |-> BAMBOO_OK,
              v |-> Bindings(M, ch[Least(hit)])[Least(Binds(M, ch[Least(hit)], s))].v]

\* C9 -- environment lookup: what bamboo_env_get has just returned for
\* (env, s) is the value bound to s in the nearest frame of the chain from
\* env that binds s, and BAMBOO_ERROR_UNBOUND with Nil exactly when no
\* frame of the chain binds s.
C9_EnvLookup ==
    host.last.op = "get" =>
        /\ [err |-> host.last.err, v |-> host.last.v]
              = Nearest(Mem, host.last.env, host.last.sym)
        /\ (host.last.err = BAMBOO_ERROR_UNBOUND /\ nilp(host.last.v))
              <=> \A k \in DOMAIN Chain(Mem, host.last.env) :
                      Binds(Mem, Chain(Mem, host.last.env)[k], host.last.sym) = {}

\* A lookup from a child frame has returned the child's binding of a
\* symbol that the root binds to something else.
C9_Witness ==
    /\ host.last.op = "get" /\ host.last.err = BAMBOO_OK
    /\ host.last.env # repl_env
    /\ Binds(Mem, host.last.env, host.last.sym) # {}
    /\ Binds(Mem, repl_env, host.last.sym) # {}
    /\ Nearest(Mem, repl_env, host.last.sym).v # host.last.v

\* The bindings of the frame fr for symbols other than s, in list order.
Others(M, fr, s) == SelectSeq(Bindings(M, fr), LAMBDA b : b.s # s.val)

\* The host has just called bamboo_env_set.
JustSet == host'.last.op = "set" /\ host'.ops = host.ops + 1

\* C10 -- define does not walk parents: a call bamboo_env_set(env, s, v)
\* leaves in the frame env exactly one binding of s, with value v, leaves
\* the frame's other bindings and its parent link as they were, and
\* leaves every other frame the host holds, the ancestors of env among
\* them, with the bindings and the parent it had.
C10_SetLocal ==
    [][JustSet =>
         /\ Cardinality(Binds(Mem', host'.last.env, host'.last.sym)) = 1
         /\ \A i \in Binds(Mem', host'.last.env, host'.last.sym) :
               Bindings(Mem', host'.last.env)[i].v = host'.last.v
         /\ Others(Mem', host'.last.env, host'.last.sym)
               = Others(Mem, host'.last.env, host'.last.sym)
         /\ Chain(Mem', host'.last.env) = Chain(Mem, host'.last.env)
         /\ \A fr \in HostEnvs \cup {Chain(Mem, host'.last.env)[k] :
                                       k \in DOMAIN Chain(Mem, host'.last.env)} :
               fr # host'.last.env =>
                   /\ Bindings(Mem', fr) = Bindings(Mem, fr)
                   /\ car(Mem', fr) = car(Mem, fr)]_vars

\* A symbol the root binds has been set in a child frame to another value.
C10_Witness ==
    /\ host.last.op = "set" /\ host.last.env # repl_env
    /\ Binds(Mem, repl_env, host.last.sym) # {}
    /\ Nearest(Mem, repl_env, host.last.sym).v # host.last.v
    /\ Nearest(Mem, host.last.env, host.last.sym).v = host.last.v

\* ------------------------------------------------------------------------
\* Properties of the special forms and of application (specification Spec).
\* ------------------------------------------------------------------------
\* The step has appended an event of kind k as the last of the trace.
Appended(k) == Len(trace') > Len(trace) /\ trace'[Len(trace')].k = k

\* The event noted when the frame f was parked.
ParkOf(tr, f) == tr[CHOOSE i \in DOMAIN tr : tr[i].k = "park" /\ tr[i].f = f]

\* The frame f was parked by a special form.
Parked(tr, f) == \E i \in DOMAIN tr : tr[i].k = "park" /\ tr[i].f = f

\* The form a parked frame stands for is an IF form.
IsIf(M, ev) == car(M, ev.a).type = "SYMBOL" /\ SymName(M, car(M, ev.a)) = "IF"

\* The values of the forms of IfProg (the sixth, a DEFINE, yields a symbol).
IfValues == <<7, 7, 7, 7, 7, 0, 5, -1>>

\* C11 -- IF truthiness: for (if c t e) the condition c is what is
\* evaluated first; once it has a value, the next expression evaluated is
\* e if that value is the Boolean false and t for any other value (Nil, 0
\* and the empty string included), in the environment of the IF form and
\* on the stack the IF form had, so that its value is the value of the
\* form; the other branch is not evaluated (in IfProg it would fail).
C11_IfTruthiness ==
    /\ [][(Appended("park") /\ IsIf(Mem, trace'[Len(trace')])) =>
             expr' = ListToSeq(Mem, trace'[Len(trace')].a)[2]]_vars
    /\ [][(Appended("if") /\ Parked(trace', trace'[Len(trace')].f)) =>
             LET pk == ParkOf(trace', trace'[Len(trace')].f)
                 f == ListToSeq(Mem, pk.a)
             IN  /\ Len(f) = 4
                 /\ expr' = IF result' = bamboo_boolean(FALSE) THEN f[4] ELSE f[3]
                 /\ env' = pk.l[1]
                 /\ stack' = pk.l[2]]_vars
    /\ [](Programs[prog] = IfProg =>
             \A i \in DOMAIN outcomes :
                 /\ outcomes[i].err = BAMBOO_OK
                 /\ i # 6 => outcomes[i].v = bamboo_int(IfValues[i]))

\* The session of IF forms has run to its end, the last form through the
\* else branch of an IF inside a closure.
C11_Witness ==
    /\ Programs[prog] = IfProg /\ pc = "read" /\ Len(outcomes) = 8
    /\ outcomes[8].v = bamboo_int(-1)
    /\ \E i \in DOMAIN trace : trace[i].k = "if" /\ trace[i].a = bamboo_boolean(FALSE)

\* What can be applied: the values a call may have as its operator.
Applicable == {"BUILTIN", "CLOSURE", "MACRO"}

\* C13 -- non-applicable operator: when the operator expression of a call
\* has evaluated to a value that is no Builtin, Closure or Macro, the
\* evaluation ends with BAMBOO_ERROR_WRONG_TYPE; the frame of the call
\* takes no other value as its operator and is not finished as an IF.
C13_NonApplicable ==
    \A i \in DOMAIN trace :
        (trace[i].k = "op" /\ trace[i].a.type \notin Applicable) =>
            /\ (pc = "read" /\ outcomes # <<>>) =>
                   outcomes[Len(outcomes)].err = BAMBOO_ERROR_WRONG_TYPE
            /\ \A j \in DOMAIN trace :
                   (j # i /\ trace[j].f = trace[i].f) => trace[j].k \notin {"op", "if"}

\* ------------------------------------------------------------------------
\* Properties of closure calls made by a host (specification SpecApply).
\* ------------------------------------------------------------------------
\* The positional parameters of a closure and whether it has a rest one.
RECURSIVE Positional(_, _)
Positional(M, arg_names) ==
    IF arg_names.type # "PAIR" THEN 0 ELSE 1 + Positional(M, cdr(M, arg_names))
RECURSIVE HasRest(_, _)
HasRest(M, arg_names) ==
    IF arg_names.type = "PAIR" THEN HasRest(M, cdr(M, arg_names))
    ELSE arg_names.type = "SYMBOL"

\* The last call of the host gave the closure a wrong number of arguments.
ArityMismatch ==
    LET names == car(Mem, cdr(Mem, host.last.func))
        k == list_count(Mem, host.last.args)
    IN  \/ k < Positional(Mem, names)
        \/ k > Positional(Mem, names) /\ ~HasRest(Mem, names)

\* C12 -- closure arity: a closure applied to fewer arguments than it has
\* positional parameters, or to more than it has parameters when it has no
\* rest parameter, fails with BAMBOO_ERROR_ARGUMENTS, through the
\* evaluator as well as through apply().
C12_ClosureArity ==
    (pc = "host" /\ host.last.op \in {"apply", "call"} /\ ArityMismatch) =>
        host.last.err = BAMBOO_ERROR_ARGUMENTS

\* ------------------------------------------------------------------------
\* Properties of the reader (specification SpecRead).
\* ------------------------------------------------------------------------
\* The host has called bamboo_parse_expr, and the token the last call
\* began with.
HasRead == host.calls > 0
ReadToken == lex(host.line, host.start)
ReadTokenIs(c) ==
    HasRead /\ ReadToken.err = BAMBOO_OK /\ CharAt(host.line, ReadToken.start) = c

\* C14: a call of bamboo_parse_expr by the host (not by parse_list) whose
\* first token is `)` returns the syntax error.
C14_TopLevelParen == ReadTokenIs(")") => host.err = BAMBOO_ERROR_SYNTAX

\* The text from position i on, depth lists being open there (instr: i is
\* inside a string), ends before the list opened first is closed.
RECURSIVE NeverClosed(_, _, _, _)
NeverClosed(str, i, depth, instr) ==
    IF CharAt(str, i) = "" THEN TRUE
    ELSE IF CharAt(str, i) = "\"" THEN NeverClosed(str, i + 1, depth, ~instr)
    ELSE IF instr THEN NeverClosed(str, i + 1, depth, instr)
    ELSE IF CharAt(str, i) = "(" THEN NeverClosed(str, i + 1, depth + 1, instr)
    ELSE IF CharAt(str, i) = ")"
         THEN depth > 1 /\ NeverClosed(str, i + 1, depth - 1, instr)
    ELSE NeverClosed(str, i + 1, depth, instr)

\* The last call began with a `(` that the line never closes.
ReadUnclosed == ReadTokenIs("(") /\ NeverClosed(host.line, ReadToken.start, 0, FALSE)

\* C15: a call of bamboo_parse_expr on a list that is opened and not closed
\* before the end of the input returns the syntax error.
C15_UnclosedList == ReadUnclosed => host.err = BAMBOO_ERROR_SYNTAX

\* The position after the `)` that closes the list opened first at or
\* after position i (after the NUL's position when nothing closes it).
RECURSIVE ListEnd(_, _, _, _)
ListEnd(str, i, depth, instr) ==
    IF CharAt(str, i) = "" THEN i + 1
    ELSE IF CharAt(str, i) = "\"" THEN ListEnd(str, i + 1, depth, ~instr)
    ELSE IF instr THEN ListEnd(str, i + 1, depth, instr)
    ELSE IF CharAt(str, i) = "(" THEN ListEnd(str, i + 1, depth + 1, instr)
    ELSE IF CharAt(str, i) = ")"
         THEN IF depth > 1 THEN ListEnd(str, i + 1, depth - 1, instr) ELSE i + 1
    ELSE ListEnd(str, i + 1, depth, instr)

\* The position after the expression that begins with token: a list ends
\* after its `)`, a string after its closing quote, anything else with
\* its token.
ExpressionEnd(str, token) ==
    IF CharAt(str, token.start) = "(" THEN ListEnd(str, token.start, 0, FALSE)
    ELSE IF CharAt(str, token.start) = "\"" THEN StringEnd(str, token.end) + 1
    ELSE token.end

\* C16: when bamboo_parse_expr returns BAMBOO_OK the caller's read pointer
\* stands right after the expression consumed, beyond where parsing began.
C16_CursorAdvance ==
    (HasRead /\ host.err = BAMBOO_OK)
        => /\ host.end > host.start
           /\ host.end = ExpressionEnd(host.line, ReadToken)

\* A token made of letters only: it is read as a symbol.
LetterToken(str, token) ==
    /\ token.err = BAMBOO_OK
    /\ token.end > token.start
    /\ \A i \in token.start..(token.end - 1) : IndexIn(LowerCase, CharAt(str, i)) > 0

\* The text a list of symbols and quoted symbols must print as: str is
\* read from token on, acc is the text of the items before it and quoted
\* tells that one of them was quoted. "" when str is no such list or
\* holds no quoted symbol.
RECURSIVE FlatItems(_, _, _, _)
FlatQuotedItem(str, token, body, acc, quoted) ==
    IF LetterToken(str, body)
    THEN FlatItems(str, lex(str, body.end),
                   acc \o " (QUOTE " \o UpperText(TokenText(str, body)) \o ")", TRUE)
    ELSE ""
FlatItems(str, token, acc, quoted) ==
    IF token.err # BAMBOO_OK THEN ""
    ELSE IF CharAt(str, token.start) = ")"
         THEN IF quoted THEN "(" \o Tail(acc) \o ")" ELSE ""
    ELSE IF CharAt(str, token.start) = "'"
         THEN FlatQuotedItem(str, token, lex(str, token.end), acc, quoted)
    ELSE IF LetterToken(str, token)
         THEN FlatItems(str, lex(str, token.end),
                        acc \o " " \o UpperText(TokenText(str, token)), quoted)
    ELSE ""

\* The expected text of the list the last call began with.
QuotedListText ==
    IF ReadTokenIs("(") THEN FlatItems(host.line, lex(host.line, ReadToken.end), "", FALSE)
    ELSE ""

\* C17: a list of symbols and quoted symbols, such as (a 'b c), is parsed
\* to the proper list of its items in source order, each quoted symbol x
\* as (QUOTE X), none dropped.
C17_QuoteInList ==
    QuotedListText # ""
        => /\ host.err = BAMBOO_OK
           /\ bamboo_expr_str(Mem, host.parsed) = QuotedListText

\* The token after a tail that is a symbol, nil or () and begins with
\* token (a token that ends the input when the tail is none of these).
AfterTail(str, token) ==
    IF LetterToken(str, token) THEN lex(str, token.end)
    ELSE IF token.err = BAMBOO_OK /\ CharAt(str, token.start) = "("
            /\ CharAt(str, lex(str, token.end).start) = ")"
         THEN lex(str, lex(str, token.end).end)
    ELSE [err |-> BAMBOO_EMPTY_LINE, start |-> token.start, end |-> token.start]

\* str, read from token on inside a list with an item already read, is
\* symbols, then a `.` and a tail, then something that is not the `)`.
RECURSIVE MoreAfterTail(_, _)
MoreAfterTail(str, token) ==
    IF token.err # BAMBOO_OK THEN FALSE
    ELSE IF TokenText(str, token) = "."
         THEN /\ AfterTail(str, lex(str, token.end)).err = BAMBOO_OK
              /\ CharAt(str, AfterTail(str, lex(str, token.end)).start) # ")"
    ELSE LetterToken(str, token) /\ MoreAfterTail(str, lex(str, token.end))

\* The last call began with a list in which a pair's tail is followed by
\* a further sub-expression.
ReadMoreAfterTail ==
    /\ ReadTokenIs("(")
    /\ LetterToken(host.line, lex(host.line, ReadToken.end))
    /\ MoreAfterTail(host.line, lex(host.line, lex(host.line, ReadToken.end).end))

\* C18: a list in which the sub-expression after a `.` is followed by
\* anything but the `)` is rejected with the syntax error, whatever the
\* tail is.
C18_DottedTailFinal == ReadMoreAfterTail => host.err = BAMBOO_ERROR_SYNTAX

\* ------------------------------------------------------------------------
\* Properties of the round trip (specification SpecRound).
\* ------------------------------------------------------------------------
\* Structural equality of two values of memory M: symbols are equal when
\* they are the same interned symbol, strings when their texts are equal.
RECURSIVE SameValue(_, _, _)
SameValue(M, a, b) ==
    IF a.type # b.type THEN FALSE
    ELSE IF a.type = "PAIR"
         THEN SameValue(M, car(M, a), car(M, b)) /\ SameValue(M, cdr(M, a), cdr(M, b))
    ELSE IF a.type = "STRING" THEN M.heap[a.val].str = M.heap[b.val].str
    ELSE a.val = b.val

C20_Teardown ==
    /\ (host.last.op = "destroy" /\ ~fault)
           => (bamboo_allocations = <<>> /\ ~StaleSymtab)
    /\ host.last.op \in {"init", "symbol"} => ~fault

\* ------------------------------------------------------------------------
\* A host that calls the arithmetic and the logic primitives on a list of
\* values.
\* ------------------------------------------------------------------------
MaxNums == 3

\* The values put in the argument lists: Integers, Floats (1.5 and 0.5)
\* and the Booleans.
NumAtoms ==
    { bamboo_int(2), bamboo_int(3), bamboo_float(1500), bamboo_float(500),
      bamboo_boolean(TRUE), bamboo_boolean(FALSE) }
RECURSIVE Tuples(_, _)
Tuples(S, n) ==
    IF n = 0 THEN {<<>>}
    ELSE Tuples(S, n - 1) \cup
         {Append(t, x) : t \in {u \in Tuples(S, n - 1) : Len(u) = n - 1}, x \in S}

\* What the integer member may read after dfloat was written.
UnionBits == {0, 7}

\* The list of the values, built with cons from the last one on.
RECURSIVE ArgList(_, _, _, _)
ArgList(M, vals, i, tail) ==
    IF i = 0 THEN [m |-> M, v |-> tail]
    ELSE ArgList(cons(M, vals[i], tail), vals, i - 1, LastPair(cons(M, vals[i], tail)))

InitArith ==
    \E a \in Tuples(NumAtoms, MaxNums), b \in UnionBits :
        \E M \in {bamboo_init(nil)} :
        /\ heap = M.heap
        /\ bamboo_allocations = M.allocs
        /\ bamboo_symbol_table = M.symtab
        /\ junk = nil
        /\ fault = FALSE
        /\ errno = NoErrno
        /\ bamboo_gc_iter_counter = 0
        /\ repl_env = Atom("PAIR", 1)
        /\ input = <<>>
        /\ prog = 0
        /\ form = L(<<>>)
        /\ pc = "host"
        /\ expr = nil /\ env = nil /\ stack = nil /\ err = BAMBOO_OK /\ result = nil
        /\ outcomes = <<>>
        /\ trace = <<>> /\ sweep = NoSweep
        /\ snap = <<>>
        /\ host = [args |-> a, bits |-> b, fn |-> "", err |-> BAMBOO_OK, v |-> nil]

\* The host conses the list and calls the primitive fn, which is f.
ArithCalled(fn, r) ==
    /\ SetMem(r.m)
    /\ host' = [host EXCEPT !.fn = fn, !.err = r.err, !.v = r.v]
    /\ UNCHANGED <<EvalVars, bamboo_gc_iter_counter, sweep>>
ArithSum ==
    /\ pc = "host" /\ host.fn = ""
    /\ \E l \in {ArgList(Mem, host.args, Len(host.args), nil)} :
        ArithCalled("+", builtin_sum(l.m, l.v))
ArithSubtract ==
    /\ pc = "host" /\ host.fn = ""
    /\ \E l \in {ArgList(Mem, host.args, Len(host.args), nil)} :
        ArithCalled("-", builtin_subtract(l.m, l.v, host.bits))
ArithMultiply ==
    /\ pc = "host" /\ host.fn = ""
    /\ \E l \in {ArgList(Mem, host.args, Len(host.args), nil)} :
        ArithCalled("*", builtin_multiply(l.m, l.v, host.bits))
ArithAnd ==
    /\ pc = "host" /\ host.fn = ""
    /\ \E l \in {ArgList(Mem, host.args, Len(host.args), nil)} :
        ArithCalled("AND", builtin_and(l.m, l.v))
ArithOr ==
    /\ pc = "host" /\ host.fn = ""
    /\ \E l \in {ArgList(Mem, host.args, Len(host.args), nil)} :
        ArithCalled("OR", builtin_or(l.m, l.v))

NextArith == ArithSum \/ ArithSubtract \/ ArithMultiply \/ ArithAnd \/ ArithOr

SpecArith == InitArith /\ [][NextArith]_vars

\* ------------------------------------------------------------------------
\* Properties of the sessions that re-enter the evaluator (SpecLoad).
\* ------------------------------------------------------------------------
\* During the form being evaluated a LOAD has returned, a collection
\* having run inside it.
LoadCollected ==
    \E i \in DOMAIN trace : trace[i].k = "load" /\ trace[i].l[1] > 0

\* C21: after a primitive has re-entered the evaluator and a collection
\* has run inside the nested evaluation, everything the resumed outer
\* evaluation reaches from its stack, its expression and its environment
\* is still allocated.
C21_ReentrantGcSafety ==
    (pc = "eval" /\ ~fault /\ LoadCollected)
        => ReachSet(Mem, {stack, expr, env}) \subseteq Live(Mem)

\* ------------------------------------------------------------------------
\* Properties of the arithmetic primitives (SpecArith).
\* ------------------------------------------------------------------------
AllNumeric == \A i \in DOMAIN host.args : host.args[i].type \in {"INTEGER", "FLOAT"}
SomeFloat == \E i \in DOMAIN host.args : host.args[i].type = "FLOAT"

\* C22: +, - and * called on two or more numbers return a Float when at
\* least one of the arguments is a Float, whatever its position, and an
\* Integer when all of them are Integers.
C22_FloatPromotion ==
    (host.fn \in {"+", "-", "*"} /\ Len(host.args) >= 2 /\ AllNumeric)
        => /\ host.err = BAMBOO_OK
           /\ host.v.type = IF SomeFloat THEN "FLOAT" ELSE "INTEGER"

AllTrue == \A i \in DOMAIN host.args : atom_boolean_val(host.args[i])
SomeTrue == \E i \in DOMAIN host.args : atom_boolean_val(host.args[i])

\* C23: every value other than the Boolean false counts as true; AND
\* called on two or more values returns true exactly when all of them are
\* true, and OR returns true exactly when at least one of them is.
C23_Connectives ==
    /\ \A x \in NumAtoms : atom_boolean_val(x) <=> x # bamboo_boolean(FALSE)
    /\ (host.fn = "AND" /\ Len(host.args) >= 2)
         => host.err = BAMBOO_OK /\ host.v = bamboo_boolean(AllTrue)
    /\ (host.fn = "OR" /\ Len(host.args) >= 2)
         => host.err = BAMBOO_OK /\ host.v = bamboo_boolean(SomeTrue)

\* ------------------------------------------------------------------------
\* Properties of the APPLY sessions (SpecApplyForm).
\* ------------------------------------------------------------------------
\* The session compares the two calls of a case, and both have returned.
BothCalled == prog \in DOMAIN ApplyCases /\ pc = "read" /\ input = <<>>
\* The form being evaluated is the APPLY form of a case.
InApplyCall ==
    prog \in DOMAIN ApplyCases /\ pc = "eval" /\ form = ApplyCall(ApplyCases[prog])

\* C24: (apply f lst) with f a Builtin or a Closure and lst a proper list
\* returns the error code and the value that the direct call of f on the
\* elements returns; the elements are not taken for evaluation (the frame
\* takes one argument expression, lst); the frame of APPLY is replaced,
\* so that the stack is never deeper than one frame; and a second
\* argument that is no proper list is an error.
C24_ApplyEquivalence ==
    /\ BothCalled
         => /\ outcomes[Len(outcomes) - 1].err = outcomes[Len(outcomes)].err
            /\ outcomes[Len(outcomes)].err <= BAMBOO_OK
                 => outcomes[Len(outcomes) - 1].v = outcomes[Len(outcomes)].v
    /\ InApplyCall
         => /\ Cardinality({i \in DOMAIN trace : trace[i].k = "next"}) <= 1
            /\ StackDepth(Mem, stack) <= 1
    /\ (prog = Len(ApplyPrograms) /\ pc = "read")
         => \A i \in DOMAIN outcomes : outcomes[i].err > BAMBOO_OK

\* Both calls of the closure with the two-expression body have returned
\* the second element, an unbound symbol.
C24_Witness ==
    /\ BothCalled
    /\ ApplyCases[prog].f = Y("H")
    /\ outcomes[Len(outcomes)].err = BAMBOO_OK
    /\ outcomes[Len(outcomes)].v.type = "SYMBOL"
    /\ SymName(Mem, outcomes[Len(outcomes)].v) = "Z"

\* ------------------------------------------------------------------------
\* The trigger of the collector (specification Spec).
\* ------------------------------------------------------------------------
\* The counter after one more iteration of the evaluator loop.
Counted == IF bamboo_gc_iter_counter + 1 = GC_ITER_COUNT_SWEEP
           THEN 0 ELSE bamboo_gc_iter_counter + 1

\* C25: every iteration of the evaluator loop increments the counter by
\* one; the iteration at which it reaches GC_ITER_COUNT_SWEEP, and no
\* other, collects and resets it to 0; the host's steps between two calls
\* of bamboo_eval_expr leave it alone; so GC_ITER_COUNT_SWEEP iterations
\* lie between two collections and the counter is below the threshold
\* whenever an iteration begins or ends.
C25_GcTrigger ==
    /\ [](bamboo_gc_iter_counter \in 0..(GC_ITER_COUNT_SWEEP - 1))
    /\ [][/\ pc = "eval"
             => /\ bamboo_gc_iter_counter' = Counted
                /\ sweep'.n = IF Counted = 0 THEN sweep.n + 1 ELSE sweep.n
          /\ pc # "eval"
             => /\ bamboo_gc_iter_counter' = bamboo_gc_iter_counter
                /\ sweep' = sweep]_vars

\* Two collections have run and a call of bamboo_eval_expr has returned
\* with the counter part of the way to the next one.
C25_Witness ==
    /\ sweep.n >= 2
    /\ pc = "read" /\ outcomes # <<>> /\ input # <<>>
    /\ bamboo_gc_iter_counter > 0

\* ------------------------------------------------------------------------
\* Properties of gc_mark (SpecMark).
\* ------------------------------------------------------------------------
\* gc_mark(host.root) has returned.
MarkReturned == host.todo = <<>>
\* The pair allocations reachable from the root through heads and tails.
ReachablePairs == {c \in ReachSet(Mem, {host.root}) : heap[c].type = "PAIR"}

\* C26: gc_mark returns on every graph, cycles and sharing included,
\* unless a read behind a string slot has yielded a reference to no
\* allocation; when it has returned every pair allocation reachable from
\* the root through heads and tails is marked; and no allocation is
\* traversed twice.
C26_MarkTerminates ==
    /\ <>(MarkReturned \/ fault)
    /\ [](MarkReturned => ReachablePairs \subseteq Marked(Mem))
    /\ [](\A c \in MarkCells : host.visits[c] <= 1)

\* gc_mark has returned from two pairs that point at each other, the
\* second one shared by the head and the tail of the first.
C26_Witness ==
    /\ MarkReturned /\ ~fault
    /\ host.root = Atom("PAIR", 2)
    /\ heap[2].car = Atom("PAIR", 3) /\ heap[2].cdr = Atom("PAIR", 3)
    /\ heap[3].cdr = Atom("PAIR", 2)
    /\ {2, 3} \subseteq Marked(Mem)
    /\ host.visits[2] = 1 /\ host.visits[3] = 1

\* C27: gc_mark reads the head and the tail of pair allocations only: on
\* a String or a Symbol it marks the string allocation and stops.
C27_StringsNotTraversed ==
    \A c \in host.reads : heap[c].type = "PAIR"

\* ------------------------------------------------------------------------
\* Properties of the sessions with a rejected definition (SpecDefine).
\* ------------------------------------------------------------------------
\* The form that has just returned is (define (name . params) body...) or
\* (defmacro (name . params) body...), and it has returned the error code
\* of bamboo_closure.
RejectedDefinition ==
    /\ pc = "read" /\ outcomes # <<>>
    /\ form.k = "list" /\ Len(form.l) >= 2
    /\ form.l[1] \in {Y("DEFINE"), Y("DEFMACRO")}
    /\ form.l[2].k = "list"
    /\ outcomes[Len(outcomes)].err = BAMBOO_ERROR_SYNTAX

\* C28: when (define (name . params) body...) is rejected because of its
\* parameter list, the bindings of the environment are those it had when
\* the form began: none has been created, none has been changed, as for a
\* rejected DEFMACRO.
C28_FailedDefineKeepsEnv ==
    RejectedDefinition => Bindings(Mem, repl_env) = snap

\* ------------------------------------------------------------------------
\* Properties of the parses of numeric tokens (SpecNum).
\* ------------------------------------------------------------------------
\* The line has just been parsed.
JustParsed == host.calls > 0 /\ (host.end > 1 \/ host.err # BAMBOO_OK)
\* What bamboo_parse_expr returns for the text when it is the first thing
\* parsed after the program has started.
ParsedFirst(t) == bamboo_parse_expr(bamboo_init(nil), t, 1, 1, nil)

\* C29: what bamboo_parse_expr returns for a numeric token depends on the
\* text of the token alone: the code, and the value when the code is
\* BAMBOO_OK, are those of a parse of the same text made first, whatever
\* was parsed before, an integer out of range included.
C29_ParseHistoryFree ==
    JustParsed =>
        /\ host.err = ParsedFirst(host.line).err
        /\ host.err = BAMBOO_OK => host.parsed = ParsedFirst(host.line).v

\* C30 -- the parse-evaluate loop of the host terminates: on every text,
\* the loop of repl() over a line and the loop of load_source over a file
\* are eventually left (the cursor has reached the terminating NUL, or a
\* parse or an evaluation has reported an error), a stray top-level `)`
\* and a list left open included.
LoopLeft == host.at = "out" \/ pc = "crash"
C30_LoopTerminates == <>LoopLeft

====
